---- MODULE Spec2Model ----
(***************************************************************************)
(* nvoc: one process run of the GPU overclocking utility.                  *)
(*                                                                         *)
(* The state machine follows main.rs `run`: argument parsing, the          *)
(* privilege gate, NVML initialisation behind the cleanup guard, device    *)
(* lookup, the architecture gate, then one of the three operations (info,  *)
(* reset, overclock), the drop of the cleanup guard and the exit status.   *)
(* Every gateway (NVML wrapper) call is appended to `calls`; the vendor    *)
(* library's answers are chosen nondeterministically at each call.         *)
(***************************************************************************)
EXTENDS Integers, Sequences, FiniteSets, TLC

VARIABLES
    pc,                 \* position in main/run
    operation,          \* "info" | "reset" | "overclock"          (cli.rs)
    clocks,             \* Config.clocks as typed by the user: <<>> or <<min,max>>
    graphics_offset,    \* Config.graphics_offset: <<>> or <<mhz>>
    memory_offset,      \* Config.memory_offset:   <<>> or <<mhz>>
    power_limit,        \* Config.power_limit:     <<>> or <<percent>>
    dry_run,            \* Config.dry_run
    device,             \* Config.device (index)
    uid,                \* real user id of the process
    euid,               \* effective user id of the process
    calls,              \* gateway calls issued so far, in order
    out,                \* lines printed so far, in order
    guard,              \* a CleanupGuard is alive
    result,             \* what run() returned
    exit_code,          \* process exit status, -1 while running
    power_info,         \* apply_power_limit: the snapshot calculate_power_limit read
    target_watts,       \* apply_power_limit: local target_watts
    reset_operations,   \* reset_gpu_settings: local Vec
    failed_operations,  \* reset_gpu_settings: local Vec
    attempted,          \* orchestrator entries, sub-operations and steps begun, in order
    gates,              \* the validators that have returned Ok in this run
    pinfo,              \* power-domain harness: PowerInfo under test
    pct,                \* power-domain harness: percentage under test
    watts,              \* power-domain harness: last computed value, -1 before
    pct2,               \* power-domain harness: a second percentage
    watts2,             \* power-domain harness: the value computed for pct2, -1 before
    pure_in,            \* pure-function harness: the function under test and its input
    pure_out            \* pure-function harness: << value returned >>, << >> before

vars == <<pc, operation, clocks, graphics_offset, memory_offset, power_limit,
          dry_run, device, uid, euid, calls, out, guard, result, exit_code,
          power_info, target_watts, reset_operations, failed_operations,
          attempted, gates, pinfo, pct, watts, pct2, watts2, pure_in, pure_out>>

cfgvars == <<operation, clocks, graphics_offset, memory_offset, power_limit,
             dry_run, device, uid, euid>>

harness == <<pinfo, pct, watts, pct2, watts2, pure_in, pure_out>>

None == <<>>

Min(a, b) == IF a < b THEN a ELSE b

Max(a, b) == IF a > b THEN a ELSE b

(***************************************************************************)
(* constants.rs                                                            *)
(***************************************************************************)
MIN_DRIVER_VERSION == 550

MILLIWATTS_TO_WATTS == 1000

POWER_PRECISION == 100

BLACKWELL_IDLE_MIN == 200

BLACKWELL_IDLE_MAX == 250

DEFAULT_GRAPHICS_OFFSET == 0

DEFAULT_MEMORY_OFFSET == 0

NVML_UNKNOWN_ERROR_CODE == 999

NVML_SUCCESS == 0

(***************************************************************************)
(* nvml/error.rs: the error classifier                                     *)
(***************************************************************************)
ErrorKinds ==
    << "Uninitialized", "InvalidArgument", "NotSupported", "NoPermission",
       "AlreadyInitialized", "NotFound", "InsufficientSize", "InsufficientPower",
       "DriverNotLoaded", "Timeout", "IrqIssue", "LibraryNotFound",
       "FunctionNotFound", "CorruptedInforom", "GpuIsLost", "ResetRequired",
       "OperatingSystem", "LibRmVersionMismatch", "InUse", "Memory", "NoData",
       "VgpuEccNotSupported", "InsufficientResources", "FreqNotSupported",
       "ArgumentVersionMismatch", "Deprecated", "NotReady" >>

NvmlError(kind) == [kind |-> kind, code |-> 0]

Unknown(code) == [kind |-> "Unknown", code |-> code]

\* mutant of from_nvml_return: an unlisted code is replaced by the fallback
\* code
from_nvml_return_lossy(code) ==
    IF code \in 1..Len(ErrorKinds) THEN NvmlError(ErrorKinds[code])
    ELSE Unknown(NVML_UNKNOWN_ERROR_CODE)

from_nvml_return(code) ==
    IF code \in 1..Len(ErrorKinds) THEN NvmlError(ErrorKinds[code])
    ELSE IF code = NVML_UNKNOWN_ERROR_CODE THEN Unknown(999)
    ELSE Unknown(code)

user_message(e) ==
    CASE e.kind = "Uninitialized" -> "NVML library not initialized"
      [] e.kind = "InvalidArgument" -> "Invalid argument provided"
      [] e.kind = "NotSupported" -> "Operation not supported by this GPU"
      [] e.kind = "NoPermission" -> "Not root"
      [] e.kind = "AlreadyInitialized" -> "NVML library already initialized"
      [] e.kind = "NotFound" -> "GPU device not found"
      [] e.kind = "InsufficientSize" -> "Buffer size too small"
      [] e.kind = "InsufficientPower" -> "Insufficient power for operation"
      [] e.kind = "DriverNotLoaded" -> "NVIDIA driver not loaded"
      [] e.kind = "Timeout" -> "Operation timed out"
      [] e.kind = "IrqIssue" -> "Hardware interrupt issue"
      [] e.kind = "LibraryNotFound" -> "NVML library not found"
      [] e.kind = "FunctionNotFound" -> "Required function not available"
      [] e.kind = "CorruptedInforom" -> "GPU InfoROM corrupted"
      [] e.kind = "GpuIsLost" -> "GPU is lost and requires reset"
      [] e.kind = "ResetRequired" -> "GPU reset required"
      [] e.kind = "OperatingSystem" -> "Operating system error"
      [] e.kind = "LibRmVersionMismatch" -> "Driver version mismatch"
      [] e.kind = "InUse" -> "Resource currently in use"
      [] e.kind = "Memory" -> "Memory allocation failed"
      [] e.kind = "NoData" -> "No data available"
      [] e.kind = "VgpuEccNotSupported" -> "vGPU ECC not supported"
      [] e.kind = "InsufficientResources" -> "Insufficient system resources"
      [] e.kind = "FreqNotSupported" -> "Frequency not supported"
      [] e.kind = "ArgumentVersionMismatch" -> "API version mismatch"
      [] e.kind = "Deprecated" -> "Function deprecated"
      [] e.kind = "NotReady" -> "System not ready"
      [] OTHER -> "Unknown NVML error"

\* mutant of actionable_message: always the technical message
actionable_message_plain(e) == user_message(e)

actionable_message(e) ==
    CASE e.kind = "NoPermission" ->
             "Insufficient permissions. Run with root privileges:\n  sudo nvoc <your-options>"
      [] e.kind = "DriverNotLoaded" ->
             "NVIDIA driver not loaded. Install nvidia-open drivers and nvidia-utils package"
      [] e.kind = "LibraryNotFound" -> "NVML library not found. Install nvidia-utils package"
      [] e.kind = "NotSupported" ->
             "Operation not supported by this GPU. Check if:\n  1. GPU supports overclocking\n  2. Coolbits are properly configured"
      [] e.kind = "NotFound" ->
             "GPU device not found. Check available devices:\n  nvidia-smi -L"
      [] e.kind = "LibRmVersionMismatch" ->
             "Driver version mismatch. Update packages:\n  sudo pacman -Syu"
      [] OTHER -> user_message(e)

(***************************************************************************)
(* Result<T, NvmlError>                                                    *)
(***************************************************************************)
Ok(v) == [ok |-> TRUE, val |-> v, err |-> NvmlError("")]

Err(e) == [ok |-> FALSE, val |-> <<>>, err |-> e]

\* nvml/mod.rs: every wrapper compares the vendor status with NVML_SUCCESS
\* and classifies anything else.
Wrap(status, v) ==
    IF status # NVML_SUCCESS THEN Err(from_nvml_return(status)) ELSE Ok(v)

\* nvml/loader.rs: the vendor entry point each wrapper of nvml/mod.rs
\* resolves and calls
EntryPoint ==
    ("init" :> "nvmlInit_v2") @@
    ("shutdown" :> "nvmlShutdown") @@
    ("system_get_driver_version" :> "nvmlSystemGetDriverVersion") @@
    ("device_get_count" :> "nvmlDeviceGetCount_v2") @@
    ("device_get_handle_by_index" :> "nvmlDeviceGetHandleByIndex_v2") @@
    ("device_get_name" :> "nvmlDeviceGetName") @@
    ("device_get_clock_offsets" :> "nvmlDeviceGetClockOffsets") @@
    ("device_set_clock_offset" :> "nvmlDeviceSetClockOffsets") @@
    ("device_set_memory_vf_offset" :> "nvmlDeviceSetMemClkVfOffset") @@
    ("device_set_gpu_locked_clocks" :> "nvmlDeviceSetGpuLockedClocks") @@
    ("device_reset_gpu_locked_clocks" :> "nvmlDeviceResetGpuLockedClocks") @@
    ("device_reset_memory_locked_clocks" :> "nvmlDeviceResetMemoryLockedClocks") @@
    ("device_get_temperature" :> "nvmlDeviceGetTemperature") @@
    ("device_get_power_usage" :> "nvmlDeviceGetPowerUsage") @@
    ("device_get_clock_info" :> "nvmlDeviceGetClockInfo") @@
    ("device_get_power_limit_constraints" :> "nvmlDeviceGetPowerManagementLimitConstraints") @@
    ("device_get_power_limit" :> "nvmlDeviceGetPowerManagementLimit") @@
    ("device_get_power_default_limit" :> "nvmlDeviceGetPowerManagementDefaultLimit") @@
    ("device_set_power_limit" :> "nvmlDeviceSetPowerManagementLimit")

\* what the loader finds: the library and the entry point, the library
\* without the entry point, or no library
LoaderOutcomes == {"resolved", "no_symbol", "no_library"}

\* nvml/loader.rs, one nvml_* function: the vendor function it invoked (""
\* when none) and the status it returned, or the loader's error
loader_call(wrapper, loader, status) ==
    IF loader = "no_library"
    THEN [invoked |-> "", res |-> Err(NvmlError("LibraryNotFound"))]
    ELSE IF loader = "no_symbol"
    THEN [invoked |-> "", res |-> Err(NvmlError("FunctionNotFound"))]
    ELSE [invoked |-> EntryPoint[wrapper], res |-> Ok(<< status >>)]

\* mutant of gateway_wrapper: the status is classified before it is tested
gateway_wrapper_eager(wrapper, loader, status) ==
    LET l == loader_call(wrapper, loader, status)
    IN  IF ~l.res.ok
        THEN [invoked |-> l.invoked, classified |-> << >>, res |-> Err(l.res.err)]
        ELSE [invoked |-> l.invoked, classified |-> << l.res.val[1] >>,
              res |-> Wrap(l.res.val[1], << >>)]

\* nvml/mod.rs, one wrapper: `let result = loader::nvml_..(..)?`, then the
\* comparison with NVML_SUCCESS; classified lists the codes handed to
\* from_nvml_return
gateway_wrapper(wrapper, loader, status) ==
    LET l == loader_call(wrapper, loader, status)
    IN  IF ~l.res.ok
        THEN [invoked |-> l.invoked, classified |-> << >>, res |-> Err(l.res.err)]
        ELSE IF l.res.val[1] # NVML_SUCCESS
        THEN [invoked |-> l.invoked, classified |-> << l.res.val[1] >>,
              res |-> Err(from_nvml_return(l.res.val[1]))]
        ELSE [invoked |-> l.invoked, classified |-> << >>, res |-> Ok(<< >>)]

(***************************************************************************)
(* f32 arithmetic (IEEE-754 binary32, round to nearest, ties to even) on   *)
(* the non-negative values the power conversions produce.                  *)
(***************************************************************************)
F32_MANTISSA_DIGITS == 24

\* n/d rounded to the nearest integer, ties to the even one
RoundHalfEven(n, d) ==
    LET q == n \div d
        r == n % d
    IN  IF 2 * r > d \/ (2 * r = d /\ q % 2 = 1) THEN q + 1 ELSE q

RECURSIVE ExcessBits(_, _)
\* how many low bits of the integer n do not fit in the mantissa
ExcessBits(n, k) ==
    IF n \div 2 ^ k < 2 ^ F32_MANTISSA_DIGITS THEN k ELSE ExcessBits(n, k + 1)

\* `n as f32` for an unsigned integer n: exact below 2^24, rounded above
F32OfNat(n) ==
    LET k == ExcessBits(n, 0)
    IN  RoundHalfEven(n, 2 ^ k) * 2 ^ k

RECURSIVE FractionBits(_, _, _)
\* the number j of fraction bits of the f32 nearest x/d: 2^23 <= x*2^j/d < 2^24
FractionBits(x, d, j) ==
    IF x * 2 ^ j >= d * 2 ^ (F32_MANTISSA_DIGITS - 1) THEN j
    ELSE FractionBits(x, d, j + 1)

\* `(x / d) as u32` for f32 values x (an integer) and d: the quotient is
\* rounded to f32 first and truncated toward zero afterwards
F32DivToU32(x, d) ==
    IF x = 0 THEN 0
    ELSE LET j == FractionBits(x, d, 0)
         IN  RoundHalfEven(x * 2 ^ j, d) \div 2 ^ j

\* Products from ProductCap upward are not computed: the quotient by
\* POWER_PRECISION is then above every watt value mw_to_w can return
\* ((2^32 - 1) / 1000), and is represented by that lower bound.
ProductCap == 1073741824

(***************************************************************************)
(* gpu/domain/power.rs: the power domain model                             *)
(***************************************************************************)
\* mutant of mw_to_w: rounds to the nearest watt instead of truncating
mw_to_w_rounded(milliwatts) ==
    milliwatts \div MILLIWATTS_TO_WATTS
        + (IF 2 * (milliwatts % MILLIWATTS_TO_WATTS) >= MILLIWATTS_TO_WATTS THEN 1 ELSE 0)

mw_to_w(milliwatts) == milliwatts \div MILLIWATTS_TO_WATTS

\* watts come from mw_to_w, so watts * 1000 stays below 2^32 (no wrap)
w_to_mw(w) == w * MILLIWATTS_TO_WATTS

PowerInfo(limit_mw, default_mw, min_mw, max_mw) ==
    [limit_watts |-> mw_to_w(limit_mw), default_watts |-> mw_to_w(default_mw),
     min_watts |-> mw_to_w(min_mw), max_watts |-> mw_to_w(max_mw)]

RECURSIVE F32Quotient(_, _, _, _)
\* the f32 nearest x/d for integers x, d > 0 that are exact in f32, by long
\* division: q is the quotient so far, r the remainder and j the number of
\* fraction bits; the result is the mantissa m and j, the value being m / 2^j
F32Quotient(q, r, d, j) ==
    IF q >= 2 ^ (F32_MANTISSA_DIGITS - 1)
    THEN [m |-> IF 2 * r > d \/ (2 * r = d /\ q % 2 = 1) THEN q + 1 ELSE q, j |-> j]
    ELSE F32Quotient(2 * q + (2 * r) \div d, (2 * r) % d, d, j + 1)

\* (limit_watts as f32 / default_watts as f32 * POWER_PRECISION) as u32:
\* the quotient is rounded to f32, the product is rounded to f32 again and
\* the cast truncates; 0/0 is NaN and casts to 0, x/0 is infinite and the
\* cast saturates (represented by ProductCap, a lower bound)
current_percentage(self) ==
    IF self.default_watts = 0
    THEN (IF self.limit_watts = 0 THEN 0 ELSE ProductCap)
    ELSE IF self.limit_watts = 0 THEN 0
    ELSE LET f == F32Quotient(self.limit_watts \div self.default_watts,
                              self.limit_watts % self.default_watts,
                              self.default_watts, 0)
         IN  IF f.j >= 31 THEN 0
             ELSE F32OfNat(f.m * POWER_PRECISION) \div 2 ^ f.j

\* mutant of calculate_watts_from_percentage: the cast to an integer wraps
\* at 16 bits instead of saturating
calculate_watts_wrapping(self, percentage) ==
    LET a == F32OfNat(self.default_watts)
        b == F32OfNat(percentage)
    IN  (IF b > 0 /\ a > ProductCap \div b
         THEN ProductCap \div POWER_PRECISION
         ELSE F32DivToU32(F32OfNat(a * b), POWER_PRECISION)) % 65536

calculate_watts_from_percentage(self, percentage) ==
    LET a == F32OfNat(self.default_watts)
        b == F32OfNat(percentage)
    IN  IF b > 0 /\ a > ProductCap \div b
        THEN ProductCap \div POWER_PRECISION
        ELSE F32DivToU32(F32OfNat(a * b), POWER_PRECISION)

\* mutant of effective_watts_from_percentage: the clamp is left out
effective_watts_unclamped(self, percentage) ==
    calculate_watts_from_percentage(self, percentage)

\* mutant of effective_watts_from_percentage: the upper clamp is left out
effective_watts_min_only(self, percentage) ==
    Max(calculate_watts_from_percentage(self, percentage), self.min_watts)

effective_watts_from_percentage(self, percentage) ==
    LET target == calculate_watts_from_percentage(self, percentage)
    IN  Min(Max(target, self.min_watts), self.max_watts)

(***************************************************************************)
(* Strings the code inspects are sequences of characters.                  *)
(***************************************************************************)
LowerCase == << "a", "b", "c", "d", "e", "f", "g", "h", "i", "j", "k", "l", "m",
                "n", "o", "p", "q", "r", "s", "t", "u", "v", "w", "x", "y", "z" >>

UpperCase == << "A", "B", "C", "D", "E", "F", "G", "H", "I", "J", "K", "L", "M",
                "N", "O", "P", "Q", "R", "S", "T", "U", "V", "W", "X", "Y", "Z" >>

Digits == << "0", "1", "2", "3", "4", "5", "6", "7", "8", "9" >>

\* mutant of to_uppercase: the text is left as it is
to_uppercase_unchanged(str) == str

to_uppercase(str) ==
    [i \in 1..Len(str) |->
        IF \E k \in 1..Len(LowerCase) : LowerCase[k] = str[i]
        THEN UpperCase[CHOOSE k \in 1..Len(LowerCase) : LowerCase[k] = str[i]]
        ELSE str[i]]

contains(str, pat) ==
    \E i \in 0..(Len(str) - Len(pat)) : SubSeq(str, i + 1, i + Len(pat)) = pat

\* nvml/types.rs: GpuArchitecture::from_device_name
from_device_name(name) ==
    LET name_upper == to_uppercase(name)
    IN  IF \/ contains(name_upper, << "R", "T", "X", " ", "5", "0" >>)
           \/ contains(name_upper, << "5", "0", "9", "0" >>)
           \/ contains(name_upper, << "5", "0", "8", "0" >>)
           \/ contains(name_upper, << "5", "0", "7", "0" >>)
           \/ contains(name_upper, << "5", "0", "6", "0" >>)
        THEN "Blackwell"
        ELSE "Unknown"

\* driver_version.split('.').next(): the text before the first '.'
FirstComponent(str) ==
    IF \E i \in 1..Len(str) : str[i] = "."
    THEN SubSeq(str, 1, (CHOOSE i \in 1..Len(str) :
                            str[i] = "." /\ \A k \in 1..(i - 1) : str[k] # ".") - 1)
    ELSE str

DigitValue(c) == (CHOOSE k \in 1..Len(Digits) : Digits[k] = c) - 1

RECURSIVE DecimalValue(_)
DecimalValue(str) ==
    IF str = << >> THEN 0
    ELSE 10 * DecimalValue(SubSeq(str, 1, Len(str) - 1)) + DigitValue(str[Len(str)])

\* str::parse::<u32>: an optional '+' sign, then at least one digit and
\* nothing but digits (the model's texts are too short to overflow u32)
parse_u32(str) ==
    LET body == IF str # << >> /\ str[1] = "+" THEN Tail(str) ELSE str
    IN  IF body # << >> /\ \A i \in 1..Len(body) : \E k \in 1..Len(Digits) : Digits[k] = body[i]
        THEN Ok(DecimalValue(body))
        ELSE Err(NvmlError("ParseIntError"))

(***************************************************************************)
(* Inputs: what the user types, who runs the process, and what the vendor  *)
(* library may answer.                                                     *)
(***************************************************************************)
MaxDevices == 2

\* a vendor status code outside the listed ones
UnlistedStatus == 28

NVML_ERROR_NOT_SUPPORTED == 3

Statuses == {NVML_SUCCESS, NVML_ERROR_NOT_SUPPORTED, UnlistedStatus}

\* answers to the calls whose error the caller discards (`Err(_)`, `let _ =`,
\* `if let Ok(..)`): which failure it was cannot matter, so one stands for all
DiscardedStatuses == {NVML_SUCCESS, UnlistedStatus}

ClockArgs == {None, << 100, 300 >>, << 100, 100 >>, << 300, 200 >>}

GraphicsOffsetArgs == {None, << 50 >>}

MemoryOffsetArgs == {None, << -100 >>}

PowerArgs == {None, << 0 >>, << 80 >>, << 2000000000 >>}

\* (real uid, effective uid): root, an ordinary user, an ordinary user
\* running a set-uid-root binary
Credentials == {<< 0, 0 >>, << 1000, 1000 >>, << 1000, 0 >>}

DeviceNames ==
    { << "R", "T", "X", " ", "5", "0", "9", "0" >>,
      << "r", "t", "x", " ", "5", "0", "8", "0" >>,
      << "R", "T", "X", " ", "4", "0", "9", "0" >> }

DriverVersions ==
    { << "5", "5", "0", ".", "5", "4" >>, << "5", "3", "5", ".", "1", "0" >>,
      << "b", "e", "t", "a" >> }

\* milliwatt readings: current limit, default limit, (min, max) constraints
LimitReadings == {150000}

DefaultReadings == {200000, 250999}

ConstraintReadings == {<< 100000, 300000 >>, << 100500, 300999 >>}

(***************************************************************************)
(* Records of what the run does                                            *)
(***************************************************************************)
Call(fn, args, status, ret) ==
    [fn |-> fn, args |-> args, status |-> status,
     ret |-> IF status = NVML_SUCCESS THEN ret ELSE << >>]

Line(to, msg, detail, nums) == [to |-> to, msg |-> msg, detail |-> detail, nums |-> nums]

WriteCalls ==
    {"device_set_gpu_locked_clocks", "device_reset_gpu_locked_clocks",
     "device_reset_memory_locked_clocks", "device_set_clock_offset",
     "device_set_memory_vf_offset", "device_set_power_limit"}

(***************************************************************************)
(* The device behind the gateway: its settings are what they were before   *)
(* the run, changed by every mutation call that returned NVML_SUCCESS (a   *)
(* call that returned an error status changed nothing).                    *)
(***************************************************************************)
Before == [state |-> "before", val |-> << >>]

Unlocked == [state |-> "unlocked", val |-> << >>]

Set(val) == [state |-> "set", val |-> val]

HwInit == [locked |-> Before, mem_locked |-> Before, graphics |-> Before,
           memory |-> Before, power |-> Before]

HwWrite(hw, c) ==
    IF c.status # NVML_SUCCESS THEN hw
    ELSE CASE c.fn = "device_set_gpu_locked_clocks" -> [hw EXCEPT !.locked = Set(c.args)]
           [] c.fn = "device_reset_gpu_locked_clocks" -> [hw EXCEPT !.locked = Unlocked]
           [] c.fn = "device_reset_memory_locked_clocks" -> [hw EXCEPT !.mem_locked = Unlocked]
           [] c.fn = "device_set_clock_offset" -> [hw EXCEPT !.graphics = Set(c.args)]
           [] c.fn = "device_set_memory_vf_offset" -> [hw EXCEPT !.memory = Set(c.args)]
           [] c.fn = "device_set_power_limit" -> [hw EXCEPT !.power = Set(c.args)]
           [] OTHER -> hw

RECURSIVE Hardware(_)
\* the device's settings after the calls of seq
Hardware(seq) ==
    IF seq = << >> THEN HwInit
    ELSE HwWrite(Hardware(SubSeq(seq, 1, Len(seq) - 1)), seq[Len(seq)])

\* main.rs: AppError and what run() returns
Running == [state |-> "running", domain |-> "", source |-> NvmlError(""), printed |-> FALSE]

RunOk == [state |-> "ok", domain |-> "", source |-> NvmlError(""), printed |-> FALSE]

AppError_new(domain, source) ==
    [state |-> "err", domain |-> domain, source |-> source, printed |-> FALSE]

\* the conversion `?` applies to an NvmlError inside run()
AppError_from(source) ==
    [state |-> "err", domain |-> "nvml", source |-> source, printed |-> FALSE]

\* the same conversion for an error whose failure message was already
\* printed where it arose: it carries the already-reported marker
AppError_reported(source) ==
    [state |-> "err", domain |-> "nvml", source |-> source, printed |-> TRUE]

\* cli: which operations modify the GPU
modifies_gpu(op) == op \in {"reset", "overclock"}

NoPowerInfo == [limit_watts |-> 0, default_watts |-> 0, min_watts |-> 0, max_watts |-> 0]

\* the harness input: a function and, in the slot of its type, its argument
NoArg ==
    [fn |-> "", name |-> << >>, num |-> 0, err |-> NvmlError(""), info |-> NoPowerInfo,
     readings |-> << >>, wrapper |-> "", loader |-> ""]

Init ==
    /\ pc = "from_args"
    /\ \/ /\ operation = "info"
          /\ clocks = None /\ graphics_offset = None /\ memory_offset = None
          /\ power_limit = None /\ dry_run = FALSE
       \/ /\ operation = "reset"
          /\ clocks = None /\ graphics_offset = None /\ memory_offset = None
          /\ power_limit = None /\ dry_run \in BOOLEAN
       \/ /\ operation = "overclock"
          /\ clocks \in ClockArgs
          /\ graphics_offset \in GraphicsOffsetArgs
          /\ memory_offset \in MemoryOffsetArgs
          /\ power_limit \in PowerArgs
          /\ dry_run \in BOOLEAN
    /\ device \in 0..(MaxDevices - 1)
    /\ \E c \in Credentials : uid = c[1] /\ euid = c[2]
    /\ calls = << >>
    /\ out = << >>
    /\ guard = FALSE
    /\ result = Running
    /\ exit_code = -1
    /\ power_info = NoPowerInfo
    /\ target_watts = 0
    /\ reset_operations = << >>
    /\ failed_operations = << >>
    /\ attempted = << >>
    /\ gates = {}
    /\ pinfo = NoPowerInfo
    /\ pct = 0
    /\ watts = -1
    /\ pct2 = 0
    /\ watts2 = -1
    /\ pure_in = NoArg
    /\ pure_out = << >>

\* run() returns `r`: control passes to the drop of its locals
Return(r) ==
    /\ result' = r
    /\ pc' = "drop_cleanup"

\* run() goes on at `next`, or returns Ok(()) when nothing is left to do
Goto(next) ==
    IF next = "return_ok" THEN Return(RunOk) ELSE pc' = next /\ UNCHANGED result

(***************************************************************************)
(* cli.rs: parse_clocks and Config::validate                               *)
(***************************************************************************)
\* mutant of parse_clocks: only min > max is rejected
parse_clocks_nonstrict(arg) ==
    IF arg[1] > arg[2]
    THEN Err(NvmlError("Minimum clock must be less than maximum clock"))
    ELSE Ok(arg)

parse_clocks(arg) ==
    IF arg[1] >= arg[2]
    THEN Err(NvmlError("Minimum clock must be less than maximum clock"))
    ELSE Ok(arg)

validate ==
    IF /\ clocks = None /\ graphics_offset = None /\ memory_offset = None
       /\ power_limit = None /\ operation = "overclock"
    THEN Err(NvmlError("No operation specified."))
    ELSE Ok(<< >>)

\* a rejected command line ends the process with the parser's usage status,
\* before run() does anything else
from_args ==
    /\ pc = "from_args"
    /\ IF (clocks # None /\ ~parse_clocks(clocks).ok) \/ ~validate.ok
       THEN /\ pc' = "exited"
            /\ exit_code' = 2
            /\ out' = Append(out, Line("stderr", "usage error", "", << >>))
       ELSE /\ pc' = "check_system"
            /\ UNCHANGED << exit_code, out >>
    /\ UNCHANGED << cfgvars, calls, guard, result, power_info, target_watts,
                    reset_operations, failed_operations, attempted, gates, harness >>

(***************************************************************************)
(* gpu/validation.rs                                                       *)
(***************************************************************************)
\* mutant of check_system_for_modification: every caller passes
check_system_for_modification_open == Ok(<< >>)

check_system_for_modification ==
    LET is_root == uid = 0
    IN  IF ~is_root THEN Err(NvmlError("NoPermission")) ELSE Ok(<< >>)

\* mutant of run_check_system: run() goes on without asking the gate
run_check_system_skipped ==
    /\ pc = "check_system"
    /\ pc' = "init_with_cleanup"
    /\ UNCHANGED << cfgvars, calls, out, guard, result, exit_code, power_info, target_watts,
                    reset_operations, failed_operations, attempted, gates, harness >>

\* main.rs run(): the privilege gate, for operations that modify the GPU
run_check_system ==
    /\ pc = "check_system"
    /\ IF modifies_gpu(operation) /\ ~check_system_for_modification.ok
       THEN /\ Return(AppError_new("nvoc", check_system_for_modification.err))
            /\ UNCHANGED gates
       ELSE /\ pc' = "init_with_cleanup"
            /\ gates' = IF modifies_gpu(operation) THEN gates \cup {"privilege"} ELSE gates
            /\ UNCHANGED result
    /\ UNCHANGED << cfgvars, calls, out, guard, exit_code, power_info, target_watts,
                    reset_operations, failed_operations, attempted, harness >>

(***************************************************************************)
(* gpu/mod.rs: init_nvml, init_with_cleanup, CleanupGuard, get_device      *)
(***************************************************************************)
\* init_nvml as a function of the vendor's answers: the calls it issues,
\* the lines it prints and what it returns
init_nvml(s_init, s_driver, version, s_nvml) ==
    LET c_init == Call("init", << >>, s_init, << >>)
        c_driver == Call("system_get_driver_version", << >>, s_driver, << version >>)
        c_nvml == Call("system_get_nvml_version", << >>, s_nvml, << >>)
        major == parse_u32(FirstComponent(version))
    IN  IF s_init # NVML_SUCCESS
        THEN [calls |-> << c_init >>, out |-> << >>, res |-> Err(from_nvml_return(s_init))]
        ELSE IF s_driver # NVML_SUCCESS
        THEN [calls |-> << c_init, c_driver >>, out |-> << >>, res |-> Ok(<< >>)]
        ELSE IF s_nvml # NVML_SUCCESS
        THEN [calls |-> << c_init, c_driver, c_nvml >>, out |-> << >>, res |-> Ok(<< >>)]
        ELSE IF ~major.ok
        THEN [calls |-> << c_init, c_driver, c_nvml >>, out |-> << >>, res |-> Ok(<< >>)]
        ELSE IF major.val < MIN_DRIVER_VERSION
        THEN [calls |-> << c_init, c_driver, c_nvml >>,
              out |-> << Line("stderr", "Driver too old", "", << major.val, MIN_DRIVER_VERSION >>) >>,
              res |-> Err(NvmlError("NotSupported"))]
        ELSE [calls |-> << c_init, c_driver, c_nvml >>,
              out |-> << Line("stdout", "Driver", "", << major.val >>) >>,
              res |-> Ok(<< >>)]

\* init_with_cleanup: the guard exists only when init_nvml returned Ok
init_with_cleanup ==
    /\ pc = "init_with_cleanup"
    /\ \E s_init \in Statuses, s_driver \in DiscardedStatuses, s_nvml \in DiscardedStatuses,
          version \in DriverVersions :
          LET r == init_nvml(s_init, s_driver, version, s_nvml)
          IN  /\ calls' = calls \o r.calls
              /\ out' = out \o r.out
              /\ IF r.res.ok
                 THEN guard' = TRUE /\ pc' = "get_device" /\ UNCHANGED result
                 ELSE /\ guard' = FALSE
                      /\ Return(IF r.out # << >> THEN AppError_reported(r.res.err)
                                ELSE AppError_from(r.res.err))
    /\ UNCHANGED << cfgvars, exit_code, power_info, target_watts,
                    reset_operations, failed_operations, attempted, gates, harness >>

\* mutant of get_device: the range check is left out
get_device_unchecked(device_index, s_count, device_count, s_handle) ==
    LET c_count == Call("device_get_count", << >>, s_count, << device_count >>)
        c_handle == Call("device_get_handle_by_index", << device_index >>, s_handle, << >>)
    IN  IF s_count # NVML_SUCCESS
        THEN [calls |-> << c_count >>, res |-> Err(from_nvml_return(s_count))]
        ELSE [calls |-> << c_count, c_handle >>, res |-> Wrap(s_handle, << >>)]

get_device(device_index, s_count, device_count, s_handle) ==
    LET c_count == Call("device_get_count", << >>, s_count, << device_count >>)
        c_handle == Call("device_get_handle_by_index", << device_index >>, s_handle, << >>)
    IN  IF s_count # NVML_SUCCESS
        THEN [calls |-> << c_count >>, res |-> Err(from_nvml_return(s_count))]
        ELSE IF device_index >= device_count
        THEN [calls |-> << c_count >>, res |-> Err(NvmlError("InvalidArgument"))]
        ELSE [calls |-> << c_count, c_handle >>, res |-> Wrap(s_handle, << >>)]

run_get_device ==
    /\ pc = "get_device"
    /\ \E s_count \in Statuses, device_count \in 0..MaxDevices, s_handle \in Statuses :
          LET r == get_device(device, s_count, device_count, s_handle)
          IN  /\ calls' = calls \o r.calls
              /\ IF r.res.ok
                 THEN pc' = "validate_architecture" /\ UNCHANGED result
                 ELSE Return(AppError_new("device", r.res.err))
    /\ UNCHANGED << cfgvars, out, guard, exit_code, power_info, target_watts,
                    reset_operations, failed_operations, attempted, gates, harness >>

(***************************************************************************)
(* gpu/overclock.rs `apply`: the order of the sub-operations               *)
(***************************************************************************)
\* mutant of ApplyOrder: the first two sub-operations exchanged
ApplyOrder_swapped == << "apply_graphics_offset", "apply_clocks", "apply_memory_offset",
                         "apply_power_limit" >>

ApplyOrder == << "apply_clocks", "apply_graphics_offset", "apply_memory_offset",
                 "apply_power_limit" >>

\* the `if let Some(..)` tests of apply
Present(step) ==
    CASE step = "apply_clocks" -> clocks # None
      [] step = "apply_graphics_offset" -> graphics_offset # None
      [] step = "apply_memory_offset" -> memory_offset # None
      [] step = "apply_power_limit" -> power_limit # None

\* the first present sub-operation after position k of ApplyOrder, or the
\* final Ok(()) of apply
ApplyNext(k) ==
    IF \E i \in (k + 1)..Len(ApplyOrder) : Present(ApplyOrder[i])
    THEN ApplyOrder[CHOOSE i \in (k + 1)..Len(ApplyOrder) :
                        /\ Present(ApplyOrder[i])
                        /\ \A m \in (k + 1)..(i - 1) : ~Present(ApplyOrder[m])]
    ELSE "return_ok"


(***************************************************************************)
(* gpu/validation.rs: the architecture gate                                *)
(***************************************************************************)
\* mutant of validate_blackwell_architecture: any name that could be read
\* passes
validate_blackwell_architecture_lenient(s_name, device_name) ==
    IF s_name # NVML_SUCCESS THEN Err(from_nvml_return(s_name)) ELSE Ok(<< >>)

validate_blackwell_architecture(s_name, device_name) ==
    IF s_name # NVML_SUCCESS THEN Err(from_nvml_return(s_name))
    ELSE IF from_device_name(device_name) # "Blackwell" THEN Err(NvmlError("NotSupported"))
    ELSE Ok(<< >>)

\* where run() goes once both gates have passed: the match on the operation
Dispatch(op) ==
    CASE op = "info" -> "info_driver_version"
      [] op = "reset" -> "reset_gpu_settings"
      [] op = "overclock" -> ApplyNext(0)

run_validate_architecture ==
    /\ pc = "validate_architecture"
    /\ \E s_name \in Statuses, device_name \in DeviceNames :
          LET r == validate_blackwell_architecture(s_name, device_name)
          IN  /\ calls' = Append(calls, Call("device_get_name", << >>, s_name, << device_name >>))
              /\ IF r.ok
                 THEN Goto(Dispatch(operation)) /\ gates' = gates \cup {"architecture"}
                 ELSE Return(AppError_new("gpu", r.err)) /\ UNCHANGED gates
    /\ UNCHANGED << cfgvars, out, guard, exit_code, power_info, target_watts,
                    reset_operations, failed_operations, attempted, harness >>

(***************************************************************************)
(* main.rs: leaving run() drops the guard; main() sets the exit status     *)
(***************************************************************************)
\* impl Drop for CleanupGuard: shutdown, its result ignored
drop_cleanup ==
    /\ pc = "drop_cleanup"
    /\ IF guard
       THEN \E s \in DiscardedStatuses :
                calls' = Append(calls, Call("shutdown", << >>, s, << >>))
       ELSE UNCHANGED calls
    /\ guard' = FALSE
    /\ pc' = "main"
    /\ UNCHANGED << cfgvars, out, result, exit_code, power_info, target_watts,
                    reset_operations, failed_operations, attempted, gates, harness >>

\* mutant of main: the error is printed whether or not it is marked
main_reprinting ==
    /\ pc = "main"
    /\ IF result.state = "err"
       THEN /\ out' = Append(out, Line("stderr", "error", user_message(result.source), << >>))
            /\ exit_code' = 1
       ELSE /\ exit_code' = 0
            /\ UNCHANGED out
    /\ pc' = "exited"
    /\ UNCHANGED << cfgvars, calls, guard, result, power_info, target_watts,
                    reset_operations, failed_operations, attempted, gates, harness >>

\* mutant of main: an error that is marked as reported ends the process
\* with status 0
main_reported_is_success ==
    /\ pc = "main"
    /\ IF result.state = "err"
       THEN /\ out' = IF ~result.printed
                      THEN Append(out, Line("stderr", "error", user_message(result.source), << >>))
                      ELSE out
            /\ exit_code' = IF result.printed THEN 0 ELSE 1
       ELSE /\ exit_code' = 0
            /\ UNCHANGED out
    /\ pc' = "exited"
    /\ UNCHANGED << cfgvars, calls, guard, result, power_info, target_watts,
                    reset_operations, failed_operations, attempted, gates, harness >>

main ==
    /\ pc = "main"
    /\ IF result.state = "err"
       THEN /\ out' = IF ~result.printed
                      THEN Append(out, Line("stderr", "error", user_message(result.source), << >>))
                      ELSE out
            /\ exit_code' = 1
       ELSE /\ exit_code' = 0
            /\ UNCHANGED out
    /\ pc' = "exited"
    /\ UNCHANGED << cfgvars, calls, guard, result, power_info, target_watts,
                    reset_operations, failed_operations, attempted, gates, harness >>

(***************************************************************************)
(* gpu/overclock.rs and gpu/power.rs: the overclock sub-operations         *)
(***************************************************************************)
\* the `?` after sub-operation k of apply: the first failure is returned at
\* once, a success goes on to the next present sub-operation
\* mutant of Propagate: a failure is swallowed and apply goes on
Propagate_swallowing(r, k) == Goto(ApplyNext(k))

Propagate(r, k) ==
    IF r.ok THEN Goto(ApplyNext(k)) ELSE Return(AppError_from(r.err))

\* the same `?` for a sub-operation whose Err arm printed the failure
PropagateReported(r, k) ==
    IF r.ok THEN Goto(ApplyNext(k)) ELSE Return(AppError_reported(r.err))

\* mutant of apply_clocks: the dry-run test is left out
apply_clocks_wet ==
    /\ pc = "apply_clocks"
    /\ \E s \in Statuses :
          LET r == Wrap(s, << >>)
          IN  /\ calls' = Append(calls, Call("device_set_gpu_locked_clocks", clocks, s, << >>))
              /\ out' = Append(out, IF r.ok
                                    THEN Line("stdout", "Clocks set", "", << >>)
                                    ELSE Line("stderr", "Clocks failed",
                                              actionable_message(r.err), << >>))
              /\ PropagateReported(r, 1)
    /\ attempted' = Append(attempted, "apply_clocks")
    /\ UNCHANGED << cfgvars, guard, exit_code, power_info, target_watts,
                    reset_operations, failed_operations, gates, harness >>

apply_clocks ==
    /\ pc = "apply_clocks"
    /\ IF dry_run
       THEN /\ out' = Append(out, Line("stdout", "[DRY] Clocks", "", clocks))
            /\ UNCHANGED calls
            /\ Propagate(Ok(<< >>), 1)
       ELSE \E s \in Statuses :
            LET r == Wrap(s, << >>)
            IN  /\ calls' = Append(calls, Call("device_set_gpu_locked_clocks", clocks, s, << >>))
                /\ out' = Append(out, IF r.ok
                                      THEN Line("stdout", "Clocks set", "", << >>)
                                      ELSE Line("stderr", "Clocks failed",
                                                actionable_message(r.err), << >>))
                /\ PropagateReported(r, 1)
    /\ attempted' = Append(attempted, "apply_clocks")
    /\ UNCHANGED << cfgvars, guard, exit_code, power_info, target_watts,
                    reset_operations, failed_operations, gates, harness >>

\* mutant of apply_graphics_offset: a failure unlocks the GPU clocks again
\* before it is returned
apply_graphics_offset_rollback ==
    /\ pc = "apply_graphics_offset"
    /\ IF dry_run
       THEN /\ out' = Append(out, Line("stdout", "[DRY] Graphics", "", graphics_offset))
            /\ UNCHANGED calls
            /\ Propagate(Ok(<< >>), 2)
       ELSE \E s \in Statuses :
            LET r == Wrap(s, << >>)
                c == Call("device_set_clock_offset", graphics_offset, s, << >>)
            IN  /\ calls' = IF r.ok THEN Append(calls, c)
                            ELSE calls \o << c, Call("device_reset_gpu_locked_clocks", << >>,
                                                     NVML_SUCCESS, << >>) >>
                /\ out' = Append(out, IF r.ok
                                      THEN Line("stdout", "Graphics offset", "", graphics_offset)
                                      ELSE Line("stderr", "Graphics offset failed",
                                                actionable_message(r.err), << >>))
                /\ PropagateReported(r, 2)
    /\ attempted' = Append(attempted, "apply_graphics_offset")
    /\ UNCHANGED << cfgvars, guard, exit_code, power_info, target_watts,
                    reset_operations, failed_operations, gates, harness >>

apply_graphics_offset ==
    /\ pc = "apply_graphics_offset"
    /\ IF dry_run
       THEN /\ out' = Append(out, Line("stdout", "[DRY] Graphics", "", graphics_offset))
            /\ UNCHANGED calls
            /\ Propagate(Ok(<< >>), 2)
       ELSE \E s \in Statuses :
            LET r == Wrap(s, << >>)
            IN  /\ calls' = Append(calls, Call("device_set_clock_offset", graphics_offset, s, << >>))
                /\ out' = Append(out, IF r.ok
                                      THEN Line("stdout", "Graphics offset", "", graphics_offset)
                                      ELSE Line("stderr", "Graphics offset failed",
                                                actionable_message(r.err), << >>))
                /\ PropagateReported(r, 2)
    /\ attempted' = Append(attempted, "apply_graphics_offset")
    /\ UNCHANGED << cfgvars, guard, exit_code, power_info, target_watts,
                    reset_operations, failed_operations, gates, harness >>

apply_memory_offset ==
    /\ pc = "apply_memory_offset"
    /\ IF dry_run
       THEN /\ out' = Append(out, Line("stdout", "[DRY] Memory", "", memory_offset))
            /\ UNCHANGED calls
            /\ Propagate(Ok(<< >>), 3)
       ELSE \E s \in Statuses :
            LET r == Wrap(s, << >>)
            IN  /\ calls' = Append(calls, Call("device_set_memory_vf_offset", memory_offset, s, << >>))
                /\ out' = Append(out, IF r.ok
                                      THEN Line("stdout", "Memory offset", "", memory_offset)
                                      ELSE Line("stderr", "Memory offset failed",
                                                actionable_message(r.err), << >>))
                /\ PropagateReported(r, 3)
    /\ attempted' = Append(attempted, "apply_memory_offset")
    /\ UNCHANGED << cfgvars, guard, exit_code, power_info, target_watts,
                    reset_operations, failed_operations, gates, harness >>

\* gpu/domain/power.rs get_power_info as a function of the vendor's answers
get_power_info(s_limit, limit_mw, s_default, default_mw, s_cons, cons) ==
    LET c_limit == Call("device_get_power_limit", << >>, s_limit, << limit_mw >>)
        c_default == Call("device_get_power_default_limit", << >>, s_default, << default_mw >>)
        c_cons == Call("device_get_power_limit_constraints", << >>, s_cons, cons)
    IN  IF s_limit # NVML_SUCCESS
        THEN [calls |-> << c_limit >>, res |-> Err(from_nvml_return(s_limit))]
        ELSE IF s_default # NVML_SUCCESS
        THEN [calls |-> << c_limit, c_default >>, res |-> Err(from_nvml_return(s_default))]
        ELSE IF s_cons # NVML_SUCCESS
        THEN [calls |-> << c_limit, c_default, c_cons >>,
              res |-> Err(from_nvml_return(s_cons))]
        ELSE [calls |-> << c_limit, c_default, c_cons >>,
              res |-> Ok(PowerInfo(limit_mw, default_mw, cons[1], cons[2]))]

\* mutant of target_mw: the value calculate_power_limit computed earlier is
\* sent, whatever the fresh snapshot says
target_mw_stale(info, percentage) == w_to_mw(target_watts)

\* the milliwatt value set_power_limit_percentage sends for a fresh snapshot
target_mw(info, percentage) == w_to_mw(effective_watts_from_percentage(info, percentage))

\* gpu/power.rs apply_power_limit, first half: calculate_power_limit, then
\* the dry-run return
apply_power_limit ==
    /\ pc = "apply_power_limit"
    /\ \E s_limit \in Statuses, limit_mw \in LimitReadings,
          s_default \in Statuses, default_mw \in DefaultReadings,
          s_cons \in Statuses, cons \in ConstraintReadings :
          LET g == get_power_info(s_limit, limit_mw, s_default, default_mw, s_cons, cons)
              w == effective_watts_from_percentage(g.res.val, power_limit[1])
          IN  /\ calls' = calls \o g.calls
              /\ IF ~g.res.ok
                 THEN /\ Propagate(g.res, 4)
                      /\ UNCHANGED << out, power_info, target_watts >>
                 ELSE /\ power_info' = g.res.val
                      /\ target_watts' = w
                      /\ IF dry_run
                         THEN /\ out' = Append(out, Line("stdout", "[DRY] Power limit", "",
                                                         << power_limit[1], w >>))
                              /\ Propagate(Ok(<< >>), 4)
                         ELSE /\ pc' = "set_power_limit_percentage"
                              /\ UNCHANGED << out, result >>
    /\ attempted' = Append(attempted, "apply_power_limit")
    /\ UNCHANGED << cfgvars, guard, exit_code,
                    reset_operations, failed_operations, gates, harness >>

\* gpu/power.rs apply_power_limit, second half: set_power_limit_percentage
\* (a fresh get_power_info, then one write) and the report
set_power_limit_percentage ==
    /\ pc = "set_power_limit_percentage"
    /\ \E s_limit \in Statuses, limit_mw \in LimitReadings,
          s_default \in Statuses, default_mw \in DefaultReadings,
          s_cons \in Statuses, cons \in ConstraintReadings, s_set \in Statuses :
          LET g == get_power_info(s_limit, limit_mw, s_default, default_mw, s_cons, cons)
              mw == target_mw(g.res.val, power_limit[1])
              r == IF g.res.ok THEN Wrap(s_set, << >>) ELSE g.res
          IN  /\ calls' = IF g.res.ok
                          THEN (calls \o g.calls) \o
                               << Call("device_set_power_limit", << mw >>, s_set, << >>) >>
                          ELSE calls \o g.calls
              /\ out' = Append(out, IF r.ok
                                    THEN Line("stdout", "Power limit set", "",
                                              << power_limit[1], target_watts >>)
                                    ELSE Line("stderr", "Power limit adjustment failed",
                                              actionable_message(r.err), << >>))
              /\ PropagateReported(r, 4)
    /\ UNCHANGED << cfgvars, guard, exit_code, power_info, target_watts,
                    reset_operations, failed_operations, attempted, gates, harness >>

(***************************************************************************)
(* gpu/reset.rs: reset_gpu_settings                                        *)
(***************************************************************************)
\* mutant of ResetStepDone: the first failing step ends the sequence
ResetStepDone_failfast(r, next) == pc' = IF r.ok THEN next ELSE "reset_summary"

\* mutant of ResetStepDone: a failed step is tried again
ResetStepDone_retrying(r, next) == pc' = IF r.ok THEN next ELSE pc

\* both arms of each step's match fall through to the next step
ResetStepDone(r, next) == pc' = next

\* mutant of reset_gpu_settings: the idle-range pre-set is left out
reset_gpu_settings_no_preset ==
    /\ pc = "reset_gpu_settings"
    /\ IF dry_run
       THEN /\ out' = Append(out, Line("stdout", "[DRY] Reset", "", << >>))
            /\ UNCHANGED calls
            /\ Return(RunOk)
       ELSE \E s_name \in Statuses :
            /\ calls' = Append(calls, Call("device_get_name", << >>, s_name, << >>))
            /\ UNCHANGED out
            /\ IF s_name # NVML_SUCCESS
               THEN Return(AppError_from(from_nvml_return(s_name)))
               ELSE pc' = "reset_gpu_locked_clocks" /\ UNCHANGED result
    /\ attempted' = Append(attempted, "reset_gpu_settings")
    /\ UNCHANGED << cfgvars, guard, exit_code, power_info, target_watts,
                    reset_operations, failed_operations, gates, harness >>

\* mutant of reset_gpu_settings: a failed device-name read is ignored
reset_gpu_settings_name_ignored ==
    /\ pc = "reset_gpu_settings"
    /\ IF dry_run
       THEN /\ out' = Append(out, Line("stdout", "[DRY] Reset", "", << >>))
            /\ UNCHANGED calls
            /\ Return(RunOk)
       ELSE \E s_name \in Statuses :
            /\ calls' = Append(calls, Call("device_get_name", << >>, s_name, << >>))
            /\ UNCHANGED out
            /\ pc' = "reset_idle_preset" /\ UNCHANGED result
    /\ attempted' = Append(attempted, "reset_gpu_settings")
    /\ UNCHANGED << cfgvars, guard, exit_code, power_info, target_watts,
                    reset_operations, failed_operations, gates, harness >>

reset_gpu_settings ==
    /\ pc = "reset_gpu_settings"
    /\ IF dry_run
       THEN /\ out' = Append(out, Line("stdout", "[DRY] Reset", "", << >>))
            /\ UNCHANGED calls
            /\ Return(RunOk)
       ELSE \E s_name \in Statuses :
            /\ calls' = Append(calls, Call("device_get_name", << >>, s_name, << >>))
            /\ UNCHANGED out
            /\ IF s_name # NVML_SUCCESS
               THEN Return(AppError_from(from_nvml_return(s_name)))
               ELSE pc' = "reset_idle_preset" /\ UNCHANGED result
    /\ attempted' = Append(attempted, "reset_gpu_settings")
    /\ UNCHANGED << cfgvars, guard, exit_code, power_info, target_watts,
                    reset_operations, failed_operations, gates, harness >>

\* `let _ = device_set_gpu_locked_clocks(idle range)`: the result is dropped
reset_idle_preset ==
    /\ pc = "reset_idle_preset"
    /\ \E s \in DiscardedStatuses :
          calls' = Append(calls, Call("device_set_gpu_locked_clocks",
                                      << BLACKWELL_IDLE_MIN, BLACKWELL_IDLE_MAX >>, s, << >>))
    /\ attempted' = Append(attempted, "Idle pre-set")
    /\ pc' = "reset_gpu_locked_clocks"
    /\ UNCHANGED << cfgvars, out, guard, result, exit_code, power_info, target_watts,
                    reset_operations, failed_operations, gates, harness >>

reset_gpu_locked_clocks ==
    /\ pc = "reset_gpu_locked_clocks"
    /\ \E s \in DiscardedStatuses :
          LET r == Wrap(s, << >>)
          IN  /\ calls' = Append(calls, Call("device_reset_gpu_locked_clocks", << >>, s, << >>))
              /\ IF r.ok
                 THEN /\ reset_operations' = Append(reset_operations, "GPU locked clocks")
                      /\ UNCHANGED << failed_operations, out >>
                 ELSE /\ failed_operations' = Append(failed_operations, "GPU locked clocks")
                      /\ out' = Append(out, Line("stderr", "GPU clocks reset failed", "", << >>))
                      /\ UNCHANGED reset_operations
              /\ ResetStepDone(r, "reset_memory_locked_clocks")
    /\ attempted' = Append(attempted, "GPU locked clocks")
    /\ UNCHANGED << cfgvars, guard, result, exit_code, power_info, target_watts, gates, harness >>

reset_memory_locked_clocks ==
    /\ pc = "reset_memory_locked_clocks"
    /\ \E s \in DiscardedStatuses :
          LET r == Wrap(s, << >>)
          IN  /\ calls' = Append(calls, Call("device_reset_memory_locked_clocks", << >>, s, << >>))
              /\ IF r.ok
                 THEN /\ reset_operations' = Append(reset_operations, "Memory locked clocks")
                      /\ UNCHANGED << failed_operations, out >>
                 ELSE /\ failed_operations' = Append(failed_operations, "Memory locked clocks")
                      /\ out' = Append(out, Line("stderr", "Memory clocks reset failed", "", << >>))
                      /\ UNCHANGED reset_operations
              /\ ResetStepDone(r, "reset_graphics_offset")
    /\ attempted' = Append(attempted, "Memory locked clocks")
    /\ UNCHANGED << cfgvars, guard, result, exit_code, power_info, target_watts, gates, harness >>

\* a failed graphics-offset reset prints its hint (reading the driver
\* version for it) and is pushed to neither list
reset_graphics_offset ==
    /\ pc = "reset_graphics_offset"
    /\ \E s \in DiscardedStatuses, s_driver \in DiscardedStatuses :
          LET r == Wrap(s, << >>)
              c == Call("device_set_clock_offset", << DEFAULT_GRAPHICS_OFFSET >>, s, << >>)
          IN  /\ IF r.ok
                 THEN /\ calls' = Append(calls, c)
                      /\ reset_operations' = Append(reset_operations, "Graphics offset")
                      /\ UNCHANGED out
                 ELSE /\ calls' = calls \o
                            << c, Call("system_get_driver_version", << >>, s_driver, << >>) >>
                      /\ out' = out \o
                            << Line("stderr", "Graphics offset reset not supported by driver",
                                    IF s_driver = NVML_SUCCESS THEN "version" ELSE "unknown", << >>),
                               Line("stderr", "Current clocks may remain elevated", "", << >>),
                               Line("stderr", "Use: sudo nvoc -o 0", "", << >>) >>
                      /\ UNCHANGED reset_operations
              /\ ResetStepDone(r, "reset_memory_vf_offset")
    /\ attempted' = Append(attempted, "Graphics offset")
    /\ UNCHANGED << cfgvars, guard, result, exit_code, power_info, target_watts,
                    failed_operations, gates, harness >>

reset_memory_vf_offset ==
    /\ pc = "reset_memory_vf_offset"
    /\ \E s \in DiscardedStatuses :
          LET r == Wrap(s, << >>)
          IN  /\ calls' = Append(calls, Call("device_set_memory_vf_offset",
                                             << DEFAULT_MEMORY_OFFSET >>, s, << >>))
              /\ IF r.ok
                 THEN /\ reset_operations' = Append(reset_operations, "Memory VF offset")
                      /\ UNCHANGED << failed_operations, out >>
                 ELSE /\ failed_operations' = Append(failed_operations, "Memory VF offset")
                      /\ out' = Append(out, Line("stderr", "Memory offset reset failed", "", << >>))
                      /\ UNCHANGED reset_operations
              /\ ResetStepDone(r, "reset_power_limit")
    /\ attempted' = Append(attempted, "Memory VF offset")
    /\ UNCHANGED << cfgvars, guard, result, exit_code, power_info, target_watts, gates, harness >>

\* mutant of reset_power_limit: the default is written back in whole watts
reset_power_limit_truncating(s_default, default_mw, s_set) ==
    LET c_default == Call("device_get_power_default_limit", << >>, s_default, << default_mw >>)
        c_set == Call("device_set_power_limit", << w_to_mw(mw_to_w(default_mw)) >>, s_set, << >>)
    IN  IF s_default # NVML_SUCCESS
        THEN [calls |-> << c_default >>, res |-> Err(from_nvml_return(s_default))]
        ELSE [calls |-> << c_default, c_set >>, res |-> Wrap(s_set, << >>)]

\* gpu/domain/power.rs reset_power_limit as a function of the vendor's answers
reset_power_limit(s_default, default_mw, s_set) ==
    LET c_default == Call("device_get_power_default_limit", << >>, s_default, << default_mw >>)
        c_set == Call("device_set_power_limit", << default_mw >>, s_set, << >>)
    IN  IF s_default # NVML_SUCCESS
        THEN [calls |-> << c_default >>, res |-> Err(from_nvml_return(s_default))]
        ELSE [calls |-> << c_default, c_set >>, res |-> Wrap(s_set, << >>)]

reset_power_limit_step ==
    /\ pc = "reset_power_limit"
    /\ \E s_default \in DiscardedStatuses, default_mw \in DefaultReadings, s_set \in DiscardedStatuses :
          LET g == reset_power_limit(s_default, default_mw, s_set)
          IN  /\ calls' = calls \o g.calls
              /\ IF g.res.ok
                 THEN /\ reset_operations' = Append(reset_operations, "Power limit")
                      /\ UNCHANGED << failed_operations, out >>
                 ELSE /\ failed_operations' = Append(failed_operations, "Power limit")
                      /\ out' = Append(out, Line("stderr", "Power limit reset failed", "", << >>))
                      /\ UNCHANGED reset_operations
              /\ ResetStepDone(g.res, "reset_summary")
    /\ attempted' = Append(attempted, "Power limit")
    /\ UNCHANGED << cfgvars, guard, result, exit_code, power_info, target_watts, gates, harness >>

CriticalResets == {"GPU locked clocks", "Memory locked clocks", "Memory VF offset"}

\* the value reset_gpu_settings returns once every step has run
reset_outcome(succeeded, failed) ==
    IF succeeded = << >> /\ failed # << >>
       /\ \E i \in 1..Len(failed) : failed[i] \in CriticalResets
    THEN Err(NvmlError("NotSupported"))
    ELSE Ok(<< >>)

\* mutant of reset_summary: when a step failed, the GPU clocks are locked to
\* the idle range again before returning
reset_summary_rollback ==
    /\ pc = "reset_summary"
    /\ LET r == reset_outcome(reset_operations, failed_operations)
       IN  /\ out' = Append(out, IF r.ok
                                 THEN Line("stdout", "Reset done", "", << >>)
                                 ELSE Line("stderr", "Critical resets failed", "", << >>))
           /\ calls' = IF failed_operations # << >>
                       THEN Append(calls, Call("device_set_gpu_locked_clocks",
                                               << BLACKWELL_IDLE_MIN, BLACKWELL_IDLE_MAX >>,
                                               NVML_SUCCESS, << >>))
                       ELSE calls
           /\ IF r.ok THEN Return(RunOk) ELSE Return(AppError_reported(r.err))
    /\ UNCHANGED << cfgvars, guard, exit_code, power_info, target_watts,
                    reset_operations, failed_operations, attempted, gates, harness >>

reset_summary ==
    /\ pc = "reset_summary"
    /\ LET r == reset_outcome(reset_operations, failed_operations)
       IN  /\ out' = ((out
                       \o (IF reset_operations # << >>
                           THEN << Line("stdout", "Reset:", "", << Len(reset_operations) >>) >>
                           ELSE << >>))
                       \o (IF failed_operations # << >>
                           THEN << Line("stderr", "Failed:", "", << Len(failed_operations) >>) >>
                           ELSE << >>))
                       \o (IF r.ok
                           THEN << Line("stdout", "Reset done", "", << >>) >>
                           ELSE << Line("stderr", "Critical resets failed", "", << >>) >>)
           /\ IF r.ok THEN Return(RunOk) ELSE Return(AppError_reported(r.err))
    /\ UNCHANGED << cfgvars, calls, guard, exit_code, power_info, target_watts,
                    reset_operations, failed_operations, attempted, gates, harness >>

(***************************************************************************)
(* main.rs Info arm and gpu/info.rs show_gpu_info                          *)
(***************************************************************************)
info_driver_version ==
    /\ pc = "info_driver_version"
    /\ \E s \in Statuses :
          /\ calls' = Append(calls, Call("system_get_driver_version", << >>, s, << >>))
          /\ IF s # NVML_SUCCESS
             THEN /\ Return(AppError_new("driver", from_nvml_return(s)))
                  /\ UNCHANGED out
             ELSE /\ out' = Append(out, Line("stdout", "driver:", "", << >>))
                  /\ pc' = "show_gpu_info"
                  /\ UNCHANGED result
    /\ UNCHANGED << cfgvars, guard, exit_code, power_info, target_watts,
                    reset_operations, failed_operations, attempted, gates, harness >>

\* mutant of InfoLine: a failed read is shown like a successful one
InfoLine_hiding(label, status) == Line("stdout", label, "value", << >>)

\* one swallowed read of show_gpu_info: the value, or N/A
InfoLine(label, status) ==
    Line("stdout", label, IF status = NVML_SUCCESS THEN "value" ELSE "N/A", << >>)

InfoReads == << "device_get_clock_info", "device_get_clock_offsets", "device_get_clock_info",
                "device_get_temperature", "device_get_power_usage" >>

InfoLabels == << "GPU:", "GPU Offset:", "Mem:", "Temp:", "Power:" >>

show_gpu_info ==
    /\ pc = "show_gpu_info"
    /\ \E s_name \in Statuses, st \in [1..Len(InfoReads) -> DiscardedStatuses],
          s_limit \in DiscardedStatuses, limit_mw \in LimitReadings,
          s_default \in DiscardedStatuses, default_mw \in DefaultReadings,
          s_cons \in DiscardedStatuses, cons \in ConstraintReadings :
          LET c_name == Call("device_get_name", << >>, s_name, << >>)
              g == get_power_info(s_limit, limit_mw, s_default, default_mw, s_cons, cons)
          IN  IF s_name # NVML_SUCCESS
              THEN /\ calls' = Append(calls, c_name)
                   /\ UNCHANGED out
                   /\ Return(AppError_new("info", from_nvml_return(s_name)))
              ELSE /\ calls' = ((calls \o << c_name >>)
                                \o [i \in 1..Len(InfoReads) |->
                                       Call(InfoReads[i], << >>, st[i], << >>)])
                                \o g.calls
                   /\ out' = ((out \o << Line("stdout", "name", "", << device >>) >>)
                              \o [i \in 1..Len(InfoReads) |-> InfoLine(InfoLabels[i], st[i])])
                              \o (IF g.res.ok
                                  THEN << Line("stdout", "Power Limit:", "",
                                               << g.res.val.limit_watts >>),
                                          Line("stdout", "Power Range:", "",
                                               << g.res.val.min_watts, g.res.val.default_watts,
                                                  g.res.val.max_watts >>) >>
                                  ELSE << Line("stdout", "Power Limit:", "N/A", << >>) >>)
                   /\ Return(RunOk)
    /\ UNCHANGED << cfgvars, guard, exit_code, power_info, target_watts,
                    reset_operations, failed_operations, attempted, gates, harness >>

(***************************************************************************)
(* The run                                                                 *)
(***************************************************************************)
Next ==
    \/ from_args
    \/ run_check_system
    \/ init_with_cleanup
    \/ run_get_device
    \/ run_validate_architecture
    \/ apply_clocks
    \/ apply_graphics_offset
    \/ apply_memory_offset
    \/ apply_power_limit
    \/ set_power_limit_percentage
    \/ reset_gpu_settings
    \/ reset_idle_preset
    \/ reset_gpu_locked_clocks
    \/ reset_memory_locked_clocks
    \/ reset_graphics_offset
    \/ reset_memory_vf_offset
    \/ reset_power_limit_step
    \/ reset_summary
    \/ info_driver_version
    \/ show_gpu_info
    \/ drop_cleanup
    \/ main

Spec == Init /\ [][Next]_vars

(***************************************************************************)
(* The power domain model on its own: a snapshot and a percentage are      *)
(* drawn, and the conversion is applied to them.                           *)
(***************************************************************************)
SnapshotWatts == {0, 1, 100, 200, 300, 450, 4294967}

\* PowerInfo snapshots whose envelope is not empty
Snapshots ==
    {i \in [limit_watts : {150}, default_watts : SnapshotWatts,
            min_watts : SnapshotWatts, max_watts : SnapshotWatts] :
        i.min_watts <= i.max_watts}

Percentages == {0, 1, 50, 99, 100, 101, 150, 1000, 16777217, 2000000000}

InitPower ==
    /\ pc = "power_domain"
    /\ operation = "info"
    /\ clocks = None /\ graphics_offset = None /\ memory_offset = None
    /\ power_limit = None /\ dry_run = FALSE
    /\ device = 0 /\ uid = 0 /\ euid = 0
    /\ calls = << >> /\ out = << >> /\ guard = FALSE
    /\ result = Running /\ exit_code = -1
    /\ power_info = NoPowerInfo /\ target_watts = 0
    /\ reset_operations = << >> /\ failed_operations = << >>
    /\ attempted = << >> /\ gates = {}
    /\ pinfo \in Snapshots
    /\ pct \in Percentages
    /\ watts = -1
    /\ pct2 = 0
    /\ watts2 = -1
    /\ pure_in = NoArg
    /\ pure_out = << >>

power_effective_watts ==
    /\ pc = "power_domain"
    /\ watts = -1
    /\ watts' = effective_watts_from_percentage(pinfo, pct)
    /\ UNCHANGED << pc, cfgvars, calls, out, guard, result, exit_code, power_info,
                    target_watts, reset_operations, failed_operations, attempted,
                    gates, pinfo, pct, pct2, watts2, pure_in, pure_out >>

\* the same snapshot asked about a second percentage
power_effective_watts_again ==
    /\ pc = "power_domain"
    /\ watts # -1
    /\ watts2 = -1
    /\ \E p \in Percentages :
          /\ pct2' = p
          /\ watts2' = effective_watts_from_percentage(pinfo, p)
    /\ UNCHANGED << pc, cfgvars, calls, out, guard, result, exit_code, power_info,
                    target_watts, reset_operations, failed_operations, attempted,
                    gates, pinfo, pct, watts, pure_in, pure_out >>

NextPower ==
    \/ power_effective_watts
    \/ power_effective_watts_again

SpecPower == InitPower /\ [][NextPower]_vars

(***************************************************************************)
(* The pure functions on their own: a function and an input are drawn and  *)
(* the function is applied to the input.                                   *)
(***************************************************************************)
NameArg(fn, name) == [NoArg EXCEPT !.fn = fn, !.name = name]

NumArg(fn, num) == [NoArg EXCEPT !.fn = fn, !.num = num]

ErrArg(fn, err) == [NoArg EXCEPT !.fn = fn, !.err = err]

InfoArg(fn, info) == [NoArg EXCEPT !.fn = fn, !.info = info]

ReadingsArg(fn, readings) == [NoArg EXCEPT !.fn = fn, !.readings = readings]

WrapperArg(wrapper, loader, status) ==
    [NoArg EXCEPT !.fn = "gateway_wrapper", !.wrapper = wrapper, !.loader = loader,
                  !.num = status]

\* vendor statuses handed to the wrappers: success, a listed failure, the
\* unlisted one, and the code the header calls unknown
WrapperStatuses == {NVML_SUCCESS, NVML_ERROR_NOT_SUPPORTED, UnlistedStatus,
                    NVML_UNKNOWN_ERROR_CODE}

InfoNumArg(fn, info, num) == [NoArg EXCEPT !.fn = fn, !.info = info, !.num = num]

\* the largest watt value mw_to_w returns: (2^32 - 1) / 1000
U32_MAX_WATTS == 4294967

\* snapshots over the whole watt range, an empty envelope (min above max)
\* included
ExtremeSnapshots ==
    [limit_watts : {150}, default_watts : {0, 300, U32_MAX_WATTS},
     min_watts : {0, 300, U32_MAX_WATTS}, max_watts : {0, 300, U32_MAX_WATTS}]

ExtremePercentages == {0, 100, 101, 16777217, 2000000000}

\* milliwatt values, up to the largest integer the checker represents
MilliwattInputs == {0, 1, 999, 1000, 1001, 1999, 2000, 150000, 250999, 2147483647}

\* the four milliwatt readings of get_power_info: limit, default, min, max
ReadingInputs ==
    {<< l, d, c[1], c[2] >> :
        l \in {150000, 265999}, d \in DefaultReadings, c \in ConstraintReadings}

\* snapshots as get_power_info builds them, from milliwatt readings
SnapshotLimitReadings == {0, 150000, 250000, 265999, 318000, 575000, 630000}

SnapshotDefaultReadings == {999, 250000, 575000, 600000}

SnapshotInputs ==
    {PowerInfo(l, d, 100000, 700000) :
        l \in SnapshotLimitReadings, d \in SnapshotDefaultReadings}

\* device names as the vendor library may report them
NameInputs ==
    { << >>,
      << "R", "T", "X", " ", "5", "0" >>,
      << "r", "t", "x", " ", "5", "0" >>,
      << "r", "T", "x", " ", "5", "0", "5", "0" >>,
      << "R", "T", "X", " ", "5" >>,
      << "R", "T", "X", " ", " ", "5", "0" >>,
      << "R", "T", "X", "5", "0" >>,
      << "5", "0", "9", "0" >>,
      << "5", "0", "8", "0" >>,
      << "5", "0", "7", "0", " ", "T", "i" >>,
      << "5", "0", "7", "0", " ", "t", "I" >>,
      << "G", "e", "F", "o", "r", "c", "e", " ", "R", "T", "X", " ", "5", "0", "6", "0" >>,
      << "g", "E", "f", "O", "R", "C", "E", " ", "r", "t", "x", " ", "5", "0", "6", "0" >>,
      << "5", "0", "5", "0" >>,
      << "4", "0", "5", "0", "6" >>,
      << "R", "T", "X", " ", "4", "0", "9", "0" >>,
      << "r", "t", "x", " ", "4", "0", "9", "0" >>,
      << "S", "o", "m", "e", " ", "G", "P", "U" >> }

\* vendor status codes: success, the listed codes, and unlisted ones up to
\* the largest the model's integers hold
StatusInputs == (0..40) \cup {998, 999, 1000, 65536, 2147483647}

\* every error the classifier can return for these codes: all 27 kinds and
\* Unknown with several codes
ErrorInputs == {from_nvml_return(c) : c \in StatusInputs}

PureInputs ==
    {NameArg("from_device_name", n) : n \in NameInputs}
    \cup {NumArg("from_nvml_return", c) : c \in StatusInputs}
    \cup {ErrArg("user_message", e) : e \in ErrorInputs}
    \cup {ErrArg("actionable_message", e) : e \in ErrorInputs}
    \cup {InfoArg("current_percentage", i) : i \in SnapshotInputs}
    \cup {NumArg("mw_to_w", m) : m \in MilliwattInputs}
    \cup {ReadingsArg("get_power_info", r) : r \in ReadingInputs}
    \cup {WrapperArg(w, l, c) :
              w \in DOMAIN EntryPoint, l \in LoaderOutcomes, c \in WrapperStatuses}
    \cup {InfoNumArg("effective_watts_from_percentage", i, p) :
              i \in ExtremeSnapshots, p \in ExtremePercentages}

InitPure ==
    /\ pc = "pure"
    /\ operation = "info"
    /\ clocks = None /\ graphics_offset = None /\ memory_offset = None
    /\ power_limit = None /\ dry_run = FALSE
    /\ device = 0 /\ uid = 0 /\ euid = 0
    /\ calls = << >> /\ out = << >> /\ guard = FALSE
    /\ result = Running /\ exit_code = -1
    /\ power_info = NoPowerInfo /\ target_watts = 0
    /\ reset_operations = << >> /\ failed_operations = << >>
    /\ attempted = << >> /\ gates = {}
    /\ pinfo = NoPowerInfo /\ pct = 0 /\ watts = -1 /\ pct2 = 0 /\ watts2 = -1
    /\ pure_in \in PureInputs
    /\ pure_out = << >>

\* a pure function touches nothing but its return value
PureFrame ==
    UNCHANGED << pc, cfgvars, calls, out, guard, result, exit_code, power_info,
                 target_watts, reset_operations, failed_operations, attempted,
                 gates, pinfo, pct, watts, pct2, watts2, pure_in >>

pure_from_device_name ==
    /\ pc = "pure" /\ pure_in.fn = "from_device_name" /\ pure_out = << >>
    /\ pure_out' = << from_device_name(pure_in.name) >>
    /\ PureFrame

pure_from_nvml_return ==
    /\ pc = "pure" /\ pure_in.fn = "from_nvml_return" /\ pure_out = << >>
    /\ pure_out' = << from_nvml_return(pure_in.num) >>
    /\ PureFrame

pure_user_message ==
    /\ pc = "pure" /\ pure_in.fn = "user_message" /\ pure_out = << >>
    /\ pure_out' = << user_message(pure_in.err) >>
    /\ PureFrame

pure_actionable_message ==
    /\ pc = "pure" /\ pure_in.fn = "actionable_message" /\ pure_out = << >>
    /\ pure_out' = << actionable_message(pure_in.err) >>
    /\ PureFrame

pure_current_percentage ==
    /\ pc = "pure" /\ pure_in.fn = "current_percentage" /\ pure_out = << >>
    /\ pure_out' = << current_percentage(pure_in.info) >>
    /\ PureFrame

pure_mw_to_w ==
    /\ pc = "pure" /\ pure_in.fn = "mw_to_w" /\ pure_out = << >>
    /\ pure_out' = << mw_to_w(pure_in.num) >>
    /\ PureFrame

\* get_power_info when the three reads succeed
pure_get_power_info ==
    /\ pc = "pure" /\ pure_in.fn = "get_power_info" /\ pure_out = << >>
    /\ LET r == pure_in.readings
           g == get_power_info(NVML_SUCCESS, r[1], NVML_SUCCESS, r[2],
                               NVML_SUCCESS, << r[3], r[4] >>)
       IN  pure_out' = << g.res.val >>
    /\ PureFrame

pure_effective_watts_from_percentage ==
    /\ pc = "pure" /\ pure_in.fn = "effective_watts_from_percentage" /\ pure_out = << >>
    /\ pure_out' = << effective_watts_from_percentage(pure_in.info, pure_in.num) >>
    /\ PureFrame

pure_gateway_wrapper ==
    /\ pc = "pure" /\ pure_in.fn = "gateway_wrapper" /\ pure_out = << >>
    /\ pure_out' = << gateway_wrapper(pure_in.wrapper, pure_in.loader, pure_in.num) >>
    /\ PureFrame

NextPure ==
    \/ pure_from_device_name
    \/ pure_from_nvml_return
    \/ pure_user_message
    \/ pure_actionable_message
    \/ pure_current_percentage
    \/ pure_mw_to_w
    \/ pure_get_power_info
    \/ pure_effective_watts_from_percentage
    \/ pure_gateway_wrapper

SpecPure == InitPure /\ [][NextPure]_vars

(***************************************************************************)
(* Properties                                                              *)
(***************************************************************************)
Failed(c) == c.status # NVML_SUCCESS

Range(seq) == {seq[i] : i \in 1..Len(seq)}

Count(x, seq) == Cardinality({i \in 1..Len(seq) : seq[i] = x})

Returned == pc \in {"drop_cleanup", "main", "exited"}

\* the gateway calls the overclock sub-operations issue, by sub-operation
SubOpOf(fn) ==
    CASE fn = "device_set_gpu_locked_clocks" -> 1
      [] fn = "device_set_clock_offset" -> 2
      [] fn = "device_set_memory_vf_offset" -> 3
      [] fn \in {"device_get_power_limit", "device_get_power_default_limit",
                 "device_get_power_limit_constraints", "device_set_power_limit"} -> 4
      [] OTHER -> 0

RankOf(step) ==
    CASE step = "apply_clocks" -> 1
      [] step = "apply_graphics_offset" -> 2
      [] step = "apply_memory_offset" -> 3
      [] step = "apply_power_limit" -> 4
      [] OTHER -> 0

Requested(rank) ==
    CASE rank = 1 -> clocks # None
      [] rank = 2 -> graphics_offset # None
      [] rank = 3 -> memory_offset # None
      [] rank = 4 -> power_limit # None
      [] OTHER -> FALSE

\* C1: overclock is fail-fast. Once a gateway call of a sub-operation has
\* failed, apply has returned exactly that failure, and no gateway call of
\* any sub-operation (a later one in particular) follows it in the run.
C1_FailFast ==
    operation = "overclock" =>
        \A i \in 1..Len(calls) :
            (SubOpOf(calls[i].fn) > 0 /\ Failed(calls[i])) =>
                /\ Returned
                /\ result.state = "err"
                /\ result.source = from_nvml_return(calls[i].status)
                /\ \A j \in (i + 1)..Len(calls) : SubOpOf(calls[j].fn) = 0

C1_Witness ==
    /\ pc = "exited" /\ operation = "overclock" /\ ~dry_run
    /\ clocks # None /\ graphics_offset # None /\ power_limit # None
    /\ attempted = << "apply_clocks" >>
    /\ \E i \in 1..Len(calls) :
          calls[i].fn = "device_set_gpu_locked_clocks" /\ Failed(calls[i])

\* C2: apply attempts only the requested sub-operations, each at most once,
\* in the order clocks, graphics offset, memory offset, power; a
\* sub-operation that was not requested causes no gateway call; and an apply
\* that returns Ok has attempted every requested one.
C2_ApplyOrder ==
    operation = "overclock" =>
        /\ \A i \in 1..Len(attempted) : Requested(RankOf(attempted[i]))
        /\ \A i, j \in 1..Len(attempted) :
              i < j => RankOf(attempted[i]) < RankOf(attempted[j])
        /\ \A i \in 1..Len(calls) :
              SubOpOf(calls[i].fn) > 0 =>
                  /\ Requested(SubOpOf(calls[i].fn))
                  /\ \E k \in 1..Len(attempted) : RankOf(attempted[k]) = SubOpOf(calls[i].fn)
        /\ \A i, j \in 1..Len(calls) :
              (i < j /\ SubOpOf(calls[i].fn) > 0 /\ SubOpOf(calls[j].fn) > 0) =>
                  SubOpOf(calls[i].fn) <= SubOpOf(calls[j].fn)
        /\ (Returned /\ result.state = "ok") =>
              \A rank \in 1..4 :
                  Requested(rank) => \E k \in 1..Len(attempted) : RankOf(attempted[k]) = rank

C2_Witness ==
    /\ pc = "exited" /\ operation = "overclock" /\ ~dry_run /\ result.state = "ok"
    /\ graphics_offset = None
    /\ attempted = << "apply_clocks", "apply_memory_offset", "apply_power_limit" >>
    /\ Count("device_set_power_limit", [i \in 1..Len(calls) |-> calls[i].fn]) = 1

\* reset_gpu_settings was entered without dry_run
ResetEntered ==
    operation = "reset" /\ ~dry_run /\ "reset_gpu_settings" \in Range(attempted)

\* the device-name read reset_gpu_settings makes (the second of the run,
\* after the architecture gate's) succeeded
ResetNameRead ==
    /\ Count("device_get_name", [i \in 1..Len(calls) |-> calls[i].fn]) = 2
    /\ \A i \in 1..Len(calls) : calls[i].fn = "device_get_name" => ~Failed(calls[i])

IndependentResetSteps ==
    {"Memory locked clocks", "Graphics offset", "Memory VF offset", "Power limit"}

ResetStepCalls ==
    {"device_set_gpu_locked_clocks", "device_reset_gpu_locked_clocks",
     "device_reset_memory_locked_clocks", "device_set_clock_offset",
     "device_set_memory_vf_offset", "device_get_power_default_limit",
     "device_set_power_limit"}

C4_Claimed ==
    (/\ pc = "exited" /\ ResetEntered
     /\ \E i \in 1..Len(calls) :
           calls[i].fn = "device_set_gpu_locked_clocks" /\ Failed(calls[i])) =>
        /\ \A j \in 1..Len(calls) : calls[j].fn # "device_reset_gpu_locked_clocks"
        /\ "GPU locked clocks" \in Range(failed_operations)
        /\ \A step \in IndependentResetSteps : Count(step, attempted) = 1

\* C5 as claimed: a non-dry-run reset that ran its steps returns an error
\* if and only if a gateway call of one of its steps failed.
C5_Claimed ==
    (pc = "exited" /\ ResetEntered /\ "Power limit" \in Range(attempted)) =>
        (result.state = "err" <=>
            \E i \in 1..Len(calls) : calls[i].fn \in ResetStepCalls /\ Failed(calls[i]))

\* C6: with dry_run set, no gateway write call is ever issued, by reset or
\* by any combination of overclock sub-operations.
C6_DryRunWritesNothing ==
    dry_run => \A i \in 1..Len(calls) : calls[i].fn \notin WriteCalls

C6_Witness ==
    /\ pc = "exited" /\ dry_run /\ operation = "overclock" /\ exit_code = 0
    /\ attempted = << "apply_clocks", "apply_graphics_offset", "apply_memory_offset",
                      "apply_power_limit" >>

OrchestratorPcs ==
    {"apply_clocks", "apply_graphics_offset", "apply_memory_offset", "apply_power_limit",
     "set_power_limit_percentage", "reset_gpu_settings", "reset_idle_preset",
     "reset_gpu_locked_clocks", "reset_memory_locked_clocks", "reset_graphics_offset",
     "reset_memory_vf_offset", "reset_power_limit", "reset_summary"}

InfoPcs == {"info_driver_version", "show_gpu_info"}

\* C7: a mutating orchestrator (reset, overclock) is only ever running, or
\* has only ever run, after both the privilege gate and the architecture
\* gate returned Ok in this run; the info operation runs after the
\* architecture gate alone, the privilege gate never having been asked.
C7_GatesFirst ==
    /\ (pc \in OrchestratorPcs \/ attempted # << >>) =>
          {"privilege", "architecture"} \subseteq gates
    /\ pc \in InfoPcs => gates = {"architecture"}
    /\ operation = "info" => "privilege" \notin gates

C7_Witness ==
    /\ pc = "reset_idle_preset" /\ gates = {"privilege", "architecture"}
    /\ \E i \in 1..Len(calls) : calls[i].fn = "device_get_name"

\* C8 as claimed: init is called at most once, and a run whose vendor init
\* succeeded ends with exactly one shutdown, which is its last gateway call.
C8_Claimed ==
    /\ Count("init", [i \in 1..Len(calls) |-> calls[i].fn]) <= 1
    /\ (pc = "exited" /\ \E i \in 1..Len(calls) : calls[i].fn = "init" /\ ~Failed(calls[i])) =>
          /\ Count("shutdown", [i \in 1..Len(calls) |-> calls[i].fn]) = 1
          /\ calls[Len(calls)].fn = "shutdown"

\* C9 as claimed: whatever set_power_limit_percentage writes lies inside the
\* (min, max) milliwatt envelope get_power_limit_constraints reported to it.
C9_Claimed ==
    operation = "overclock" =>
        \A i \in 1..Len(calls) :
            calls[i].fn = "device_set_power_limit" =>
                /\ calls[i - 1].fn = "device_get_power_limit_constraints"
                /\ calls[i - 1].ret[1] <= calls[i].args[1]
                /\ calls[i].args[1] <= calls[i - 1].ret[2]

C11_NonDecreasing ==
    (watts # -1 /\ watts2 # -1) =>
        /\ pct <= pct2 => watts <= watts2
        /\ pct2 <= pct => watts2 <= watts

C11_Witness ==
    /\ watts # -1 /\ watts2 # -1
    /\ pct = 0 /\ pct2 = 2000000000
    /\ pinfo.min_watts = 100 /\ pinfo.max_watts = 300 /\ pinfo.default_watts = 200
    /\ watts = 100 /\ watts2 = 300

IsPowerCall(c) == SubOpOf(c.fn) = 4

\* the gateway calls of the power sub-operation, in order
PowerCalls == SelectSeq(calls, IsPowerCall)

\* the calls of set_power_limit_percentage: those after the three reads
\* calculate_power_limit made
SetPercentageCalls == SubSeq(PowerCalls, 4, Len(PowerCalls))

SetPercentageOrder ==
    << "device_get_power_limit", "device_get_power_default_limit",
       "device_get_power_limit_constraints", "device_set_power_limit" >>

\* C12: set_power_limit_percentage reads the current limit, the default
\* limit and the constraints anew, in that order, and then issues exactly
\* one set_power_limit whose argument is the effective watts of that fresh
\* snapshot times 1000; a failed read ends it with that read's classified
\* error and no write; a failed write is returned as its classified error.
C12_FreshReadThenOneWrite ==
    (operation = "overclock" /\ Len(PowerCalls) > 3) =>
        LET q == SetPercentageCalls
            last == q[Len(q)]
        IN  /\ Len(q) <= Len(SetPercentageOrder)
            /\ \A i \in 1..Len(q) : q[i].fn = SetPercentageOrder[i]
            /\ \A i \in 1..(Len(q) - 1) : ~Failed(q[i])
            /\ Len(q) = 4 =>
                  q[4].args = << w_to_mw(effective_watts_from_percentage(
                                     PowerInfo(q[1].ret[1], q[2].ret[1], q[3].ret[1], q[3].ret[2]),
                                     power_limit[1])) >>
            /\ Failed(last) =>
                  /\ Returned
                  /\ result.state = "err"
                  /\ result.source = from_nvml_return(last.status)
            /\ ~Failed(last) => Len(q) = 4 /\ Returned /\ result.state = "ok"

C12_Witness ==
    /\ pc = "exited" /\ operation = "overclock" /\ power_limit = << 80 >>
    /\ Len(PowerCalls) = 7
    /\ PowerCalls[2].ret = << 200000 >> /\ target_watts = 160
    /\ PowerCalls[5].ret = << 250999 >>
    /\ PowerCalls[7].fn = "device_set_power_limit"
    /\ PowerCalls[7].args = << 200000 >>
    /\ Failed(PowerCalls[7])
    /\ result.source = NvmlError("NotSupported")

IsWriteCall(c) == c.fn \in WriteCalls

\* the gateway mutation calls of the run, in order
Writes == SelectSeq(calls, IsWriteCall)

ResetWriteOrder ==
    << "device_set_gpu_locked_clocks", "device_reset_gpu_locked_clocks",
       "device_reset_memory_locked_clocks", "device_set_clock_offset",
       "device_set_memory_vf_offset", "device_set_power_limit" >>

\* C13: the gateway mutation calls of a reset are, in this order, the
\* idle-range pre-set, the locked-clock reset, the memory locked-clock reset,
\* the graphics offset to zero, the memory VF offset to zero and the power
\* limit restore: at every moment the mutations issued so far are the first
\* ones of that list, so reset_locked_clocks never comes before the pre-set;
\* and a finished reset that read the device name has issued the first five.
C13_ResetOrder ==
    operation = "reset" =>
        /\ Len(Writes) <= Len(ResetWriteOrder)
        /\ \A i \in 1..Len(Writes) : Writes[i].fn = ResetWriteOrder[i]
        /\ Len(Writes) >= 1 => Writes[1].args = << BLACKWELL_IDLE_MIN, BLACKWELL_IDLE_MAX >>
        /\ Len(Writes) >= 4 => Writes[4].args = << DEFAULT_GRAPHICS_OFFSET >>
        /\ Len(Writes) >= 5 => Writes[5].args = << DEFAULT_MEMORY_OFFSET >>
        /\ (pc = "exited" /\ ResetEntered /\ ResetNameRead) => Len(Writes) >= 5

C13_Witness ==
    /\ pc = "exited" /\ operation = "reset"
    /\ Len(Writes) = 6
    /\ Failed(Writes[1]) /\ ~Failed(Writes[2]) /\ Failed(Writes[3])
    /\ Writes[6].fn = "device_set_power_limit" /\ Writes[6].args = << 250999 >>

\* the default limit reset_power_limit read, as a setting
DefaultLimitRead ==
    LET i == CHOOSE i \in 1..Len(calls) : calls[i].fn = "device_get_power_default_limit"
    IN  Set(calls[i].ret)

\* C14: reset never rolls back. At every moment of a reset, and at its end
\* in particular, each step recorded as succeeded is still applied on the
\* device (clocks unlocked, offsets zero, power limit at the default that
\* was read), whichever other steps failed, and no mutation call is issued
\* a second time.
C14_ResetNoRollback ==
    (operation = "reset" /\ ~dry_run) =>
        LET hw == Hardware(calls)
            done == Range(reset_operations)
        IN  /\ "GPU locked clocks" \in done => hw.locked = Unlocked
            /\ "Memory locked clocks" \in done => hw.mem_locked = Unlocked
            /\ "Graphics offset" \in done => hw.graphics = Set(<< DEFAULT_GRAPHICS_OFFSET >>)
            /\ "Memory VF offset" \in done => hw.memory = Set(<< DEFAULT_MEMORY_OFFSET >>)
            /\ "Power limit" \in done => hw.power = DefaultLimitRead
            /\ \A fn \in WriteCalls : Count(fn, [i \in 1..Len(calls) |-> calls[i].fn]) <= 1

C14_Witness ==
    /\ pc = "exited" /\ operation = "reset" /\ ~dry_run
    /\ failed_operations = << "Memory locked clocks" >>
    /\ reset_operations = << "GPU locked clocks", "Graphics offset", "Memory VF offset",
                             "Power limit" >>
    /\ Hardware(calls) = [locked |-> Unlocked, mem_locked |-> Before, graphics |-> Set(<< 0 >>),
                          memory |-> Set(<< 0 >>), power |-> Set(<< 200000 >>)]

\* the device setting sub-operation `rank` of apply writes
SettingOf(hw, rank) ==
    CASE rank = 1 -> hw.locked
      [] rank = 2 -> hw.graphics
      [] rank = 3 -> hw.memory
      [] rank = 4 -> hw.power

\* what the user asked sub-operation `rank` (1..3) to write
RequestedSetting(rank) ==
    CASE rank = 1 -> Set(clocks)
      [] rank = 2 -> Set(graphics_offset)
      [] rank = 3 -> Set(memory_offset)

\* C15: overclock never rolls back. When apply has returned the failure of
\* sub-operation k, the settings of the requested sub-operations before k
\* are exactly what was written for them, the settings of k and of every
\* later sub-operation are what they were before the run, and no mutation
\* call was issued twice (none compensates an earlier one).
C15_OverclockNoRollback ==
    (/\ operation = "overclock" /\ ~dry_run /\ Returned
     /\ result.state = "err" /\ attempted # << >>) =>
        LET k == RankOf(attempted[Len(attempted)])
            hw == Hardware(calls)
        IN  /\ \A j \in 1..4 :
                  SettingOf(hw, j) = IF j < k /\ Requested(j) THEN RequestedSetting(j)
                                     ELSE Before
            /\ hw.mem_locked = Before
            /\ \A fn \in WriteCalls : Count(fn, [i \in 1..Len(calls) |-> calls[i].fn]) <= 1

C15_Witness ==
    /\ pc = "exited" /\ operation = "overclock" /\ ~dry_run /\ result.state = "err"
    /\ clocks = << 100, 300 >> /\ graphics_offset = << 50 >> /\ power_limit # None
    /\ attempted = << "apply_clocks", "apply_graphics_offset", "apply_memory_offset" >>
    /\ Hardware(calls) = [locked |-> Set(<< 100, 300 >>), mem_locked |-> Before,
                          graphics |-> Set(<< 50 >>), memory |-> Before, power |-> Before]

\* C16 as claimed: with dry_run set, neither orchestrator issues a gateway
\* call, reads included: the run holds no call of an overclock
\* sub-operation, no call of a reset step, and no device-name read beyond
\* the architecture gate's.
C16_Claimed ==
    dry_run =>
        /\ \A i \in 1..Len(calls) :
              SubOpOf(calls[i].fn) = 0 /\ calls[i].fn \notin ResetStepCalls
        /\ Count("device_get_name", [i \in 1..Len(calls) |-> calls[i].fn]) <= 1

\* the failure messages the overclock sub-operations and the reset steps
\* print where the failure arises
SourceFailureLines ==
    {"Clocks failed", "Graphics offset failed", "Memory offset failed",
     "Power limit adjustment failed", "GPU clocks reset failed",
     "Memory clocks reset failed", "Graphics offset reset not supported by driver",
     "Memory offset reset failed", "Power limit reset failed", "Critical resets failed"}

\* the lines the top-level handler printed
HandlerLines == {i \in 1..Len(out) : out[i].to = "stderr" /\ out[i].msg = "error"}

C18_ExitStatus ==
    (pc = "exited" /\ result.state # "running") =>
        /\ exit_code = 0 <=> result.state = "ok"
        /\ result.state = "err" => exit_code # 0
        /\ result.state = "err" => (HandlerLines # {} <=> ~result.printed)
        /\ result.state = "ok" => HandlerLines = {}

C18_Witness ==
    /\ pc = "exited" /\ exit_code = 1
    /\ result = AppError_new("gpu", NvmlError("NotSupported"))
    /\ out[Len(out)] = Line("stderr", "error", "Operation not supported by this GPU", << >>)
    /\ Cardinality(HandlerLines) = 1

\* C19: a clock range is accepted exactly when min < max. A request with
\* min >= max ends the process in the argument parser, before any gate or
\* orchestrator has run or any gateway call was made; a request with
\* min < max is never rejected; and every set_locked_clock_range call of the
\* run, overclock's or the reset pre-set's, has min < max.
C19_ClockRangeStrict ==
    /\ \A i \in 1..Len(calls) :
          calls[i].fn = "device_set_gpu_locked_clocks" => calls[i].args[1] < calls[i].args[2]
    /\ (clocks # None /\ clocks[1] >= clocks[2] /\ pc # "from_args") =>
          /\ pc = "exited" /\ exit_code = 2
          /\ calls = << >> /\ attempted = << >> /\ gates = {}
    /\ (clocks # None /\ clocks[1] < clocks[2]) => exit_code # 2

C19_Witness ==
    /\ pc = "exited" /\ clocks = << 100, 100 >> /\ exit_code = 2
    /\ calls = << >> /\ attempted = << >>
    /\ out = << Line("stderr", "usage error", "", << >>) >>

\* the architecture gate's read: the first device-name read of the run
GateRead ==
    calls[CHOOSE i \in 1..Len(calls) :
              /\ calls[i].fn = "device_get_name"
              /\ \A k \in 1..(i - 1) : calls[k].fn # "device_get_name"]

\* C20: the architecture gate reads the device name; a failed read makes
\* run() return that read's classified error, a name that does not classify
\* as supported makes it return NotSupported, and the gate passes only for
\* a name that was read and classifies as supported; in a run where the
\* gate has not passed, no mutating gateway call is ever issued.
C20_ArchitectureGate ==
    /\ "architecture" \in gates =>
          \E i \in 1..Len(calls) : calls[i].fn = "device_get_name"
    /\ (\E i \in 1..Len(calls) : calls[i].fn = "device_get_name") =>
          /\ Failed(GateRead) =>
                /\ Returned
                /\ result = AppError_new("gpu", from_nvml_return(GateRead.status))
                /\ "architecture" \notin gates
          /\ (~Failed(GateRead) /\ from_device_name(GateRead.ret[1]) # "Blackwell") =>
                /\ Returned
                /\ result = AppError_new("gpu", NvmlError("NotSupported"))
                /\ "architecture" \notin gates
          /\ (~Failed(GateRead) /\ from_device_name(GateRead.ret[1]) = "Blackwell") =>
                "architecture" \in gates
    /\ "architecture" \notin gates => Writes = << >>

C20_Witness ==
    /\ pc = "exited" /\ operation = "overclock" /\ ~dry_run /\ uid = 0
    /\ \E i \in 1..Len(calls) : calls[i].fn = "device_get_name"
    /\ GateRead.ret = << << "R", "T", "X", " ", "4", "0", "9", "0" >> >>
    /\ result = AppError_new("gpu", NvmlError("NotSupported"))
    /\ Writes = << >> /\ attempted = << >>
    /\ calls[Len(calls)].fn = "shutdown"

\* C21 as claimed: once the privilege gate has been asked (a mutating
\* operation past the gate), it has passed exactly when the effective user
\* id is 0, whatever the real user id, and otherwise run() returned a
\* permission error.
C21_Claimed ==
    (modifies_gpu(operation) /\ pc \notin {"from_args", "check_system"} /\ exit_code # 2) =>
        /\ "privilege" \in gates <=> euid = 0
        /\ "privilege" \notin gates =>
              Returned /\ result = AppError_new("nvoc", NvmlError("NoPermission"))

\* one character of a name against one of a marker, letter case ignored
SameCharIgnoringCase(a, b) ==
    \/ a = b
    \/ \E k \in 1..Len(LowerCase) :
          {a, b} = {LowerCase[k], UpperCase[k]}

SameIgnoringCase(s1, s2) ==
    /\ Len(s1) = Len(s2)
    /\ \A i \in 1..Len(s1) : SameCharIgnoringCase(s1[i], s2[i])

\* the markers of the supported family
Markers ==
    { << "R", "T", "X", " ", "5", "0" >>, << "5", "0", "9", "0" >>, << "5", "0", "8", "0" >>,
      << "5", "0", "7", "0" >>, << "5", "0", "6", "0" >> }

ContainsIgnoringCase(name, marker) ==
    \E i \in 0..(Len(name) - Len(marker)) :
        SameIgnoringCase(SubSeq(name, i + 1, i + Len(marker)), marker)

\* C22: from_device_name returns a classification for every name; it is
\* Blackwell (supported) exactly when the name, letter case ignored,
\* contains "RTX 50", "5090", "5080", "5070" or "5060"; every name that
\* differs from it only in letter case classifies the same; and "RTX 4090"
\* is not supported.
C22_FromDeviceName ==
    (pure_in.fn = "from_device_name" /\ pure_out # << >>) =>
        /\ pure_out[1] \in {"Blackwell", "Unknown"}
        /\ pure_out[1] = "Blackwell" <=> \E m \in Markers : ContainsIgnoringCase(pure_in.name, m)
        /\ \A other \in NameInputs :
              SameIgnoringCase(pure_in.name, other) => from_device_name(other) = pure_out[1]
        /\ pure_in.name = << "R", "T", "X", " ", "4", "0", "9", "0" >> => pure_out[1] = "Unknown"

C22_Witness ==
    /\ pure_in = NameArg("from_device_name", << "5", "0", "7", "0", " ", "t", "I" >>)
    /\ pure_out = << "Blackwell" >>
    /\ from_device_name(<< "r", "t", "x", " ", "5", "0" >>) = "Blackwell"

\* C23: the error classifier returns an error for every status code; each
\* of the codes 1..27 gives an error kind of its own, which is not Unknown
\* and which no other of these codes gives; every other code c gives
\* Unknown(c), the code kept as it was.
C23_ClassifierTotal ==
    (pure_in.fn = "from_nvml_return" /\ pure_out # << >>) =>
        LET c == pure_in.num
        IN  /\ c \in 1..27 =>
                  /\ pure_out[1].kind # "Unknown"
                  /\ pure_out[1].kind = ErrorKinds[c]
                  /\ \A d \in 1..27 : d # c => from_nvml_return(d) # pure_out[1]
            /\ c \notin 1..27 => pure_out[1] = [kind |-> "Unknown", code |-> c]

C23_Witness ==
    /\ pure_in = NumArg("from_nvml_return", 28)
    /\ pure_out = << [kind |-> "Unknown", code |-> 28] >>
    /\ from_nvml_return(27) = [kind |-> "NotReady", code |-> 0]

\* the kinds with a known fix
KnownFixKinds ==
    {"NoPermission", "DriverNotLoaded", "LibraryNotFound", "NotSupported", "NotFound",
     "LibRmVersionMismatch"}

\* C24: every error kind has a technical message (user_message returns a
\* non-empty text for it), and actionable_message returns a text different
\* from the technical message exactly for the kinds with a known fix
\* (no-permission, driver-not-loaded, library-not-found, not-supported,
\* not-found, version-mismatch); for every other kind, Unknown(code)
\* included, it returns the technical message itself.
C24_Messages ==
    /\ (pure_in.fn = "user_message" /\ pure_out # << >>) => pure_out[1] # ""
    /\ (pure_in.fn = "actionable_message" /\ pure_out # << >>) =>
          /\ pure_out[1] # ""
          /\ pure_out[1] # user_message(pure_in.err) <=> pure_in.err.kind \in KnownFixKinds

C24_Witness ==
    /\ pure_in = ErrArg("actionable_message", NvmlError("NotSupported"))
    /\ pure_out # << >>
    /\ pure_out[1] # "Operation not supported by this GPU"
    /\ actionable_message(Unknown(28)) = "Unknown NVML error"

\* C25: as the specification states it, current_percentage returns
\* limit_watts * 100 / default_watts truncated toward zero for every
\* snapshot, and exactly 100 whenever limit_watts = default_watts.
\* The f32 quotient is rounded before the multiplication, so the result can
\* be one below the truncated ratio (265 W of 250 W gives 105, not 106), and
\* a snapshot of 0 W of 0 W gives 0, not 100.
C25_Claimed ==
    (pure_in.fn = "current_percentage" /\ pure_out # << >>) =>
        /\ pure_in.info.default_watts > 0 =>
              pure_out[1] = (pure_in.info.limit_watts * 100) \div pure_in.info.default_watts
        /\ pure_in.info.limit_watts = pure_in.info.default_watts => pure_out[1] = 100

\* w is the floor of m / 1000: w * 1000 <= m < (w + 1) * 1000
IsFloorWatts(w, m) == w >= 0 /\ m - w * 1000 \in 0..999

\* C26: mw_to_w(m) is the floor of m / 1000 for every milliwatt value m
\* (mw_to_w(1999) = 1, not 2), and every field of the PowerInfo that
\* get_power_info builds is the truncated watt value of the corresponding
\* milliwatt reading.
C26_MwToW ==
    /\ (pure_in.fn = "mw_to_w" /\ pure_out # << >>) =>
          /\ IsFloorWatts(pure_out[1], pure_in.num)
          /\ pure_in.num = 1999 => pure_out[1] = 1
    /\ (pure_in.fn = "get_power_info" /\ pure_out # << >>) =>
          /\ IsFloorWatts(pure_out[1].limit_watts, pure_in.readings[1])
          /\ IsFloorWatts(pure_out[1].default_watts, pure_in.readings[2])
          /\ IsFloorWatts(pure_out[1].min_watts, pure_in.readings[3])
          /\ IsFloorWatts(pure_out[1].max_watts, pure_in.readings[4])

C26_Witness ==
    /\ pure_in = ReadingsArg("get_power_info", << 265999, 250999, 100500, 300999 >>)
    /\ pure_out = << [limit_watts |-> 265, default_watts |-> 250,
                      min_watts |-> 100, max_watts |-> 300] >>
    /\ mw_to_w(1999) = 1

\* the gateway functions that take a device handle: queries and mutations
IsDeviceCall(c) ==
    c.fn \in {"device_get_name", "device_get_power_limit", "device_get_power_default_limit",
              "device_get_power_limit_constraints", "device_set_power_limit",
              "device_set_gpu_locked_clocks", "device_reset_gpu_locked_clocks",
              "device_reset_memory_locked_clocks", "device_set_clock_offset",
              "device_set_memory_vf_offset"}

HandleRequests == SelectSeq(calls, LAMBDA c : c.fn = "device_get_handle_by_index")

CountReads == SelectSeq(calls, LAMBDA c : c.fn = "device_get_count")

\* device resolution has run and failed: at the count read, at the range
\* check or at the handle lookup
ResolutionFailed ==
    /\ CountReads # << >>
    /\ \/ Failed(CountReads[1])
       \/ device >= CountReads[1].ret[1]
       \/ HandleRequests # << >> /\ Failed(HandleRequests[1])

\* C27: when the requested index is at or above the device count the
\* gateway reports, resolution fails with no handle request; when it is
\* below, the handle is requested once, for exactly that index, right after
\* the count read. When resolution fails (count read, range check or handle
\* lookup), no device query or mutation is issued in the run.
C27_DeviceResolution ==
    /\ Len(CountReads) <= 1 /\ Len(HandleRequests) <= 1
    /\ (CountReads # << >> /\ ~Failed(CountReads[1])) =>
          IF device >= CountReads[1].ret[1]
          THEN /\ HandleRequests = << >>
               /\ Returned /\ result = AppError_new("device", NvmlError("InvalidArgument"))
          ELSE /\ Len(HandleRequests) = 1
               /\ HandleRequests[1].args = << device >>
               /\ \E i \in 1..(Len(calls) - 1) :
                     /\ calls[i].fn = "device_get_count"
                     /\ calls[i + 1] = HandleRequests[1]
    /\ (CountReads = << >> \/ Failed(CountReads[1])) => HandleRequests = << >>
    /\ ResolutionFailed =>
          /\ \A i \in 1..Len(calls) : ~IsDeviceCall(calls[i])
          /\ Returned /\ result.domain = "device"

C27_Witness ==
    /\ device = 1
    /\ CountReads # << >> /\ CountReads[1].ret = << 1 >>
    /\ HandleRequests = << >>
    /\ pc = "exited" /\ exit_code = 1
    /\ calls[Len(calls)].fn = "shutdown"

\* the line a reset step prints when its gateway call fails
StepFailureLine(fn) ==
    CASE fn = "device_reset_gpu_locked_clocks" -> "GPU clocks reset failed"
      [] fn = "device_reset_memory_locked_clocks" -> "Memory clocks reset failed"
      [] fn = "device_set_clock_offset" -> "Graphics offset reset not supported by driver"
      [] fn = "device_set_memory_vf_offset" -> "Memory offset reset failed"
      [] fn = "device_get_power_default_limit" -> "Power limit reset failed"
      [] fn = "device_set_power_limit" -> "Power limit reset failed"

Printed(text) == \E k \in 1..Len(out) : out[k].msg = text

\* the steps after the idle pre-set: in every state, a failed gateway call
\* of a step has its line in the output already, and a failed
\* graphics-offset step has the remediation hint as well
StepFailuresReported ==
    ResetEntered =>
        \A i \in 1..Len(calls) :
            (calls[i].fn \in ResetStepCalls \ {"device_set_gpu_locked_clocks"}
             /\ Failed(calls[i])) =>
                /\ Printed(StepFailureLine(calls[i].fn))
                /\ calls[i].fn = "device_set_clock_offset" => Printed("Use: sudo nvoc -o 0")

\* the idle pre-set: its failure is in the output before the next step's
\* gateway call is issued
PresetFailureReported ==
    (/\ ResetEntered /\ pc = "reset_gpu_locked_clocks"
     /\ Failed(calls[Len(calls)])) => out # << >>

\* C28 as claimed: in reset every failing step, the idle pre-set included,
\* has its failure in the output before the gateway call of the next step,
\* and a failing graphics-offset step has the manual-remediation hint too.
\* The pre-set's result is dropped: its failure is never reported.
C28_Claimed == StepFailuresReported /\ PresetFailureReported

\* the steps reset_gpu_settings records, in step order
RecordedSteps ==
    << "GPU locked clocks", "Memory locked clocks", "Graphics offset", "Memory VF offset",
       "Power limit" >>

StepIndex(step) == CHOOSE k \in 1..Len(RecordedSteps) : RecordedSteps[k] = step

InStepOrder(list) ==
    \A i, j \in 1..Len(list) : i < j => StepIndex(list[i]) < StepIndex(list[j])

\* the part of C29 that holds whatever fails: no step is in both lists or
\* twice in one, and each list is in step order
RecordsDisjointOrdered ==
    ResetEntered =>
        /\ \A k \in 1..Len(RecordedSteps) :
              Count(RecordedSteps[k], reset_operations)
                  + Count(RecordedSteps[k], failed_operations) <= 1
        /\ InStepOrder(reset_operations) /\ InStepOrder(failed_operations)

\* C29 as claimed: when a non-dry-run reset that ran its steps finishes,
\* every step is recorded exactly once, as succeeded or as failed, in step
\* order. A failed graphics-offset step is recorded in neither list.
C29_Claimed ==
    /\ RecordsDisjointOrdered
    /\ (pc = "exited" /\ ResetEntered /\ ResetNameRead) =>
          \A k \in 1..Len(RecordedSteps) :
              Count(RecordedSteps[k], reset_operations)
                  + Count(RecordedSteps[k], failed_operations) = 1

\* C30: in a reset, every set_power_limit call directly follows a
\* successful read of the default limit and writes exactly the milliwatt
\* value that read returned; when the read of the default limit fails, no
\* set_power_limit call is issued and the power step is recorded as failed.
C30_ResetPowerDefault ==
    ResetEntered =>
        \A i \in 1..Len(calls) :
            /\ calls[i].fn = "device_set_power_limit" =>
                  /\ i > 1
                  /\ calls[i - 1].fn = "device_get_power_default_limit"
                  /\ ~Failed(calls[i - 1])
                  /\ calls[i].args = calls[i - 1].ret
            /\ (calls[i].fn = "device_get_power_default_limit" /\ Failed(calls[i])) =>
                  /\ \A j \in 1..Len(calls) : calls[j].fn # "device_set_power_limit"
                  /\ Count("Power limit", failed_operations) = 1
                  /\ "Power limit" \notin Range(reset_operations)

C30_Witness ==
    /\ pc = "exited" /\ ResetEntered
    /\ \E i \in 2..Len(calls) :
          /\ calls[i].fn = "device_set_power_limit" /\ ~Failed(calls[i])
          /\ calls[i].args = << 250999 >>
          /\ calls[i - 1].ret = << 250999 >>
    /\ "Power limit" \in Range(reset_operations)

NameReads == SelectSeq(calls, LAMBDA c : c.fn = "device_get_name")

\* C31: a non-dry-run reset reads the device name before any mutation (no
\* write call precedes the read, and every write call follows a successful
\* read); when the read fails, reset returns that read's error at once and
\* none of its steps (idle pre-set, clock resets, offset resets, power
\* restore) is attempted: no step call is in the log and neither list has
\* an entry.
C31_ResetNameFirst ==
    ResetEntered =>
        /\ Len(NameReads) = 2
        /\ \A i \in 1..Len(calls) :
              IsWriteCall(calls[i]) =>
                  /\ ~Failed(NameReads[2])
                  /\ \E j \in 1..(i - 1) : calls[j] = NameReads[2] /\ calls[j].args = << >>
                                              /\ \A k \in 1..j : ~IsWriteCall(calls[k])
        /\ Failed(NameReads[2]) =>
              /\ Returned
              /\ result = AppError_from(from_nvml_return(NameReads[2].status))
              /\ attempted = << "reset_gpu_settings" >>
              /\ \A i \in 1..Len(calls) : calls[i].fn \notin ResetStepCalls
              /\ reset_operations = << >> /\ failed_operations = << >>

C31_Witness ==
    /\ pc = "exited" /\ ResetEntered /\ exit_code = 1
    /\ Len(NameReads) = 2 /\ NameReads[2].status = NVML_ERROR_NOT_SUPPORTED
    /\ result.source = NvmlError("NotSupported")
    /\ calls[Len(calls)].fn = "shutdown"

\* C32: a reset or overclock requested by a process that fails the
\* privilege gate (its user id, the one the gate tests, is not 0) ends with
\* the Permission error before any gateway call: the call log stays empty
\* for the whole run (no init, no shutdown, no device call) and the run
\* exits with status 1 (2 when the command line was rejected first).
C32_GateBeforeGateway ==
    (modifies_gpu(operation) /\ uid # 0) =>
        /\ calls = << >>
        /\ ~guard
        /\ (pc \notin {"from_args", "check_system"} /\ exit_code # 2) =>
              /\ Returned
              /\ result = AppError_new("nvoc", NvmlError("NoPermission"))
        /\ pc = "exited" => exit_code \in {1, 2}

C32_Witness ==
    /\ pc = "exited" /\ exit_code = 1
    /\ operation = "overclock" /\ ~dry_run /\ uid # 0
    /\ result = AppError_new("nvoc", NvmlError("NoPermission"))
    /\ calls = << >>
    /\ out # << >>

\* C33 as claimed: in a non-dry-run power step the wattage named in the
\* success message equals the value written to set_power_limit (written
\* milliwatts / 1000), whatever the gateway returns. The message names the
\* target computed from the step's first PowerInfo read, the write uses a
\* second read: when the two reads differ, so do the two values.
C33_Claimed ==
    (operation = "overclock" /\ ~dry_run) =>
        \A k \in 1..Len(out) :
            out[k].msg = "Power limit set" =>
                \E i \in 1..Len(calls) :
                    /\ calls[i].fn = "device_set_power_limit" /\ ~Failed(calls[i])
                    /\ out[k].nums[2] = calls[i].args[1] \div MILLIWATTS_TO_WATTS

\* C34: the watt value the power-percentage path converts to milliwatts
\* never exceeds (2^32 - 1) / 1000 = 4294967, so effective_watts * 1000 is
\* at most 4294967000 <= 2^32 - 1 and the 32-bit multiplication in w_to_mw
\* does not overflow, for every snapshot mw_to_w can produce and every
\* percentage.
C34_NoOverflow ==
    (pure_in.fn = "effective_watts_from_percentage" /\ pure_out # << >>) =>
        /\ pure_out[1] >= 0
        /\ pure_out[1] <= U32_MAX_WATTS
        /\ pure_out[1] <= pure_in.info.max_watts

C34_Witness ==
    /\ pure_in.fn = "effective_watts_from_percentage"
    /\ pure_in.num = 2000000000
    /\ pure_in.info.default_watts = U32_MAX_WATTS
    /\ pure_in.info.min_watts = U32_MAX_WATTS /\ pure_in.info.max_watts = U32_MAX_WATTS
    /\ pure_out = << U32_MAX_WATTS >>
    /\ calculate_watts_from_percentage(pure_in.info, pure_in.num) > U32_MAX_WATTS

\* the reads show_gpu_info makes after the device name, in order; the last
\* is the first read of get_power_info
LaterInfoReads ==
    << "device_get_clock_info", "device_get_clock_offsets", "device_get_clock_info",
       "device_get_temperature", "device_get_power_usage", "device_get_power_limit" >>

LaterInfoLabels == << "GPU:", "GPU Offset:", "Mem:", "Temp:", "Power:", "Power Limit:" >>

Unavailable(label) == \E k \in 1..Len(out) : out[k].msg = label /\ out[k].detail = "N/A"

\* the position in the call log of show_gpu_info's device-name read (the
\* second of an info run), or 0 before it
InfoNameRead ==
    IF Len(NameReads) < 2 THEN 0
    ELSE CHOOSE j \in 1..Len(calls) :
             /\ calls[j].fn = "device_get_name"
             /\ \E i \in 1..(j - 1) : calls[i].fn = "device_get_name"

\* C35: the info operation never issues a gateway write call; when its
\* device-name read fails it returns that error and reads nothing more;
\* when a later read (clocks, offset, temperature, power usage, power info)
\* fails, that value is shown as N/A, every later read is still performed,
\* and the operation succeeds.
C35_InfoReadOnly ==
    operation = "info" =>
        /\ \A i \in 1..Len(calls) : ~IsWriteCall(calls[i])
        /\ InfoNameRead > 0 =>
              LET j == InfoNameRead
              IN  IF Failed(calls[j])
                  THEN /\ Returned
                       /\ result = AppError_new("info", from_nvml_return(calls[j].status))
                       /\ \A i \in (j + 1)..Len(calls) : calls[i].fn = "shutdown"
                  ELSE /\ Returned /\ result = RunOk
                       /\ pc = "exited" => exit_code = 0
                       /\ Len(calls) >= j + Len(LaterInfoReads)
                       /\ \A i \in 1..Len(LaterInfoReads) :
                             /\ calls[j + i].fn = LaterInfoReads[i]
                             /\ Failed(calls[j + i]) => Unavailable(LaterInfoLabels[i])
                             /\ (i < Len(LaterInfoReads) /\ ~Failed(calls[j + i])) =>
                                   ~Unavailable(LaterInfoLabels[i])
                       /\ (\E i \in (j + 6)..Len(calls) :
                               calls[i].fn # "shutdown" /\ Failed(calls[i]))
                              <=> Unavailable("Power Limit:")

C35_Witness ==
    /\ operation = "info" /\ pc = "exited" /\ exit_code = 0
    /\ InfoNameRead > 0
    /\ ~Failed(calls[InfoNameRead])
    /\ Failed(calls[InfoNameRead + 1])
    /\ ~Failed(calls[InfoNameRead + 2])
    /\ Failed(calls[InfoNameRead + 4])
    /\ Unavailable("GPU:") /\ ~Unavailable("GPU Offset:") /\ Unavailable("Temp:")
    /\ Unavailable("Power Limit:")

\* the vendor init succeeded; init_nvml then always asks the driver version
VendorInitOk == calls # << >> /\ calls[1].fn = "init" /\ ~Failed(calls[1])

\* the leading component of the driver version init_nvml read
DriverMajor == parse_u32(FirstComponent(calls[2].ret[1]))

OldDriver == ~Failed(calls[2]) /\ DriverMajor.ok /\ DriverMajor.val < MIN_DRIVER_VERSION

\* init_with_cleanup returned Ok: run() is at, or went through, get_device
InitSucceeded == pc = "get_device" \/ CountReads # << >>

InitRejected ==
    /\ ~InitSucceeded /\ Returned
    /\ result.source = NvmlError("NotSupported")
    /\ HandleRequests = << >>
    /\ \A i \in 1..Len(calls) : ~IsDeviceCall(calls[i])

\* what holds of the version check: an old driver is rejected when the NVML
\* version could be read as well, and accepted when it could not
OldDriverRejectedWhenNvmlVersionRead ==
    (VendorInitOk /\ OldDriver) =>
        IF Failed(calls[3]) THEN InitSucceeded ELSE InitRejected

\* C36 as claimed: when the vendor init succeeds and the leading component
\* of the driver version is a number below 550, initialization fails with
\* NotSupported and no device lookup, query or mutation follows; when the
\* driver version cannot be read or its leading component is not a number,
\* initialization succeeds. The version test sits inside the successful
\* read of the NVML version: when that read fails, an old driver passes.
C36_Claimed ==
    VendorInitOk =>
        /\ OldDriver => InitRejected
        /\ (Failed(calls[2]) \/ ~DriverMajor.ok) => InitSucceeded

\* a step of the run can be taken exactly until the process has exited
NextEnabledUntilExit == pc # "exited" <=> ENABLED << Next >>_vars

\* the run under the assumption that every gateway call returns: a step
\* that can be taken is eventually taken. This is WF_vars(Next) written
\* out: Next is enabled exactly before the exit (NextEnabledUntilExit), and
\* the steps of the run that change vars are its Next steps.
Returning == []<>(pc = "exited") \/ []<><< TRUE >>_vars

SpecReturning == Spec /\ Returning

CallCount(fn) == Count(fn, [i \in 1..Len(calls) |-> calls[i].fn])

\* the gateway mutation calls of sub-operation k of an overclock
SubOpWrites(k) == SelectSeq(calls, LAMBDA c : IsWriteCall(c) /\ SubOpOf(c.fn) = k)

\* no step is retried: a reset issues each of its mutation calls at most
\* once, an overclock at most one mutation call per present sub-operation
\* and none for an absent one
NoStepRepeated ==
    /\ operation = "reset" => \A fn \in WriteCalls : CallCount(fn) <= 1
    /\ operation = "overclock" =>
          \A k \in 1..Len(ApplyOrder) :
              Len(SubOpWrites(k)) <= (IF Present(ApplyOrder[k]) THEN 1 ELSE 0)

\* C37: assuming every gateway call returns, every reset and every
\* overclock run terminates whatever the gateway answers, and no step is
\* retried or looped (NoStepRepeated holds throughout).
C37_Terminates ==
    /\ []NoStepRepeated
    /\ modifies_gpu(operation) => <>(pc = "exited")

C37_Witness ==
    /\ pc = "exited" /\ operation = "reset" /\ ~dry_run
    /\ \A fn \in WriteCalls : CallCount(fn) = 1
    /\ \E i \in 1..Len(calls) : IsWriteCall(calls[i]) /\ Failed(calls[i])

\* C38: every gateway wrapper returns success if and only if the vendor
\* status is the success code, and otherwise the classification of exactly
\* that status; the classifier is never handed the success code; and when
\* the library or the entry point cannot be resolved, the wrapper returns
\* LibraryNotFound or FunctionNotFound without invoking a vendor function.
C38_WrapperContract ==
    (pure_in.fn = "gateway_wrapper" /\ pure_out # << >>) =>
        LET o == pure_out[1]
        IN  /\ \A k \in 1..Len(o.classified) : o.classified[k] # NVML_SUCCESS
            /\ pure_in.loader = "resolved" =>
                  /\ o.invoked = EntryPoint[pure_in.wrapper]
                  /\ o.res.ok <=> pure_in.num = NVML_SUCCESS
                  /\ ~o.res.ok =>
                        /\ o.res.err = from_nvml_return(pure_in.num)
                        /\ o.classified = << pure_in.num >>
            /\ pure_in.loader = "no_library" =>
                  o.invoked = "" /\ o.res = Err(NvmlError("LibraryNotFound"))
            /\ pure_in.loader = "no_symbol" =>
                  o.invoked = "" /\ o.res = Err(NvmlError("FunctionNotFound"))

C38_Witness ==
    /\ pure_in = WrapperArg("device_set_power_limit", "resolved", UnlistedStatus)
    /\ pure_out # << >>
    /\ pure_out[1].invoked = "nvmlDeviceSetPowerManagementLimit"
    /\ pure_out[1].res = Err(Unknown(UnlistedStatus))
    /\ gateway_wrapper("init", "no_library", NVML_SUCCESS).res.err = NvmlError("LibraryNotFound")
    /\ gateway_wrapper("shutdown", "resolved", NVML_SUCCESS).res.ok

====
